---- MODULE Spec2Model ----
(***************************************************************************)
(* A model of the run pipeline of auto-tester: the orchestrator startRun   *)
(* (apps/web/app/api/internal/orchestrator.ts), the crawler entry point    *)
(* crawl (packages/crawler), the heuristic generator generateTests, the    *)
(* step executor runTest (packages/runner) and the event stream of one     *)
(* run (the SSE route GET with replayAndStream).                           *)
(*                                                                         *)
(* JavaScript runs one task at a time: another task (a stream's timer, a   *)
(* DELETE request) runs only while startRun is suspended at an await.      *)
(* The orchestrator is modelled as a program counter pc; the positions in  *)
(* AwaitPcs are its awaits, and the other tasks' actions are enabled only  *)
(* there.                                                                  *)
(***************************************************************************)
EXTENDS Naturals, Integers, Sequences, FiniteSets, TLC

\* ------------------------------------------------------------------ bounds

\* Environment failures in one run: an emit callback that throws, a step
\* action or a screenshot that fails, a browser that does not start or close.
MaxFaults == 1
\* Tests the AI provider returns in one call.
MaxAiTests == 1

\* ---------------------------------------------------------------- helpers

Undef == "undefined"

Min(a, b) == IF a <= b THEN a ELSE b

Abs(a) == IF a < 0 THEN 0 - a ELSE a

Range(s) == {s[k] : k \in 1..Len(s)}

\* s.slice(0, n)
Slice(s, n) == SubSeq(s, 1, Min(n, Len(s)))

\* arr.find(P): the first element satisfying P as <<element>>, or <<>> for undefined
Find(s, P(_)) ==
  IF \E k \in 1..Len(s) : P(s[k])
  THEN <<s[CHOOSE k \in 1..Len(s) : P(s[k]) /\ \A j \in 1..(k - 1) : ~P(s[j])]>>
  ELSE <<>>

RECURSIVE Flatten(_)
Flatten(ss) == IF ss = <<>> THEN <<>> ELSE Head(ss) \o Flatten(Tail(ss))

\* arr.flatMap(F)
FlatMap(s, F(_)) == Flatten([k \in 1..Len(s) |-> F(s[k])])

IsPrefix(s, t) == Len(s) <= Len(t) /\ SubSeq(t, 1, Len(s)) = s

\* ---------------------------------------------------- pages and elements

\* A PageElement as the crawler builds it: the attributes the pipeline reads
\* (type, name, accept, required), the text, and the owning form.
Elem(id, tag, type, name, text) ==
  [id |-> id, tag |-> tag, type |-> type, name |-> name, text |-> text,
   accept |-> "", required |-> FALSE, containerFormId |-> Undef]

inferElementType(e) ==
  IF e.tag = "input" THEN (IF e.type = "" THEN "text" ELSE e.type)
  ELSE IF e.tag = "button" THEN "button"
  ELSE IF e.tag = "a" THEN "link"
  ELSE IF e.tag = "select" THEN "select"
  ELSE IF e.tag = "textarea" THEN "textarea"
  ELSE Undef

StartUrl == "https://x/a"
BadUrl == "not a url"

\* new URL(startUrl) throws on a string that is no absolute URL
ValidUrl(u) == u # BadUrl

Page(id, url, title, els) == [id |-> id, url |-> url, title |-> title, elements |-> els]

BlankPage == Page("p1", StartUrl, "Home", <<>>)
LinkPage == Page("p1", StartUrl, "Home", <<Elem("e1", "a", "", "", "Next")>>)
ModalPage ==
  Page("p1", StartUrl, "Home",
       <<Elem("e1", "button", "", "", "Open"), Elem("e2", "button", "", "", "Close")>>)
UploadPage ==
  Page("p1", StartUrl, "Home",
       <<[Elem("e1", "input", "file", "doc", "") EXCEPT !.accept = "image/*"]>>)
LoginPage ==
  Page("p1", StartUrl, "Sign in",
       <<Elem("e1", "input", "text", "username", ""),
         Elem("e2", "input", "password", "password", "")>>)
SecondPage == Page("p2", "https://x/b", "More", <<Elem("e3", "a", "", "", "Help")>>)

\* The page lists a successful crawl of the start URL returns.
Sites == { <<BlankPage>>, <<LinkPage>>, <<ModalPage>>, <<UploadPage>>, <<LoginPage>>,
           <<LinkPage, SecondPage>> }

\* -------------------------------------------------- the heuristic generator

\* /next|continue|login|submit|go|start|dashboard/i
NavVerbText(t) == t \in {"Next", "Continue", "Login", "Submit", "Go", "Start", "Dashboard"}
\* /submit|login|sign in/i
SubmitText(t) == t \in {"Submit", "Login", "Sign in"}
\* /open|modal|dialog/i and /close|dismiss/i
OpenText(t) == t \in {"Open", "Modal", "Dialog"}
CloseText(t) == t \in {"Close", "Dismiss"}
\* /user|email|mail/ and /pass|pwd/ on name + ' ' + text
UserLike(e) == e.name \in {"username", "email"} \/ e.text \in {"username", "email"}
PassLike(e) == e.name \in {"password", "pwd"} \/ e.text \in {"password", "pwd"}

Step(action, target, inputData, expected) ==
  [action |-> action, targetElementId |-> target, inputData |-> inputData, expected |-> expected]

\* A dummy value that ignores the type of the field.
dummyValueForAnyType(t) == "value"

dummyValueFor(t) ==
  CASE t = "email" -> "user@example.com"
    [] t = "password" -> "P@ssw0rd!"
    [] t = "search" -> "test"
    [] t = "select" -> "1"
    [] OTHER -> "value"

IndexOfId(els, id) ==
  IF \E k \in 1..Len(els) : els[k].id = id
  THEN (CHOOSE k \in 1..Len(els) : els[k].id = id /\ \A j \in 1..(k - 1) : els[j].id # id) - 1
  ELSE 0

\* The score that puts the semantic class before the distance.
ControlScoreSemanticFirst(page, submitId, f) ==
  Abs(IndexOfId(page.elements, f.id) - IndexOfId(page.elements, submitId))
  + 10 * (IF UserLike(f) THEN 0 ELSE IF PassLike(f) THEN 1 ELSE 2)

\* distance + semantic * 0.1, times ten
ControlScore(page, submitId, f) ==
  10 * Abs(IndexOfId(page.elements, f.id) - IndexOfId(page.elements, submitId))
  + (IF UserLike(f) THEN 0 ELSE IF PassLike(f) THEN 1 ELSE 2)

\* scored.sort((a, b) => a.score - b.score), a stable sort
RECURSIVE SortScored(_)
SortScored(s) ==
  IF s = <<>> THEN <<>>
  ELSE LET k == CHOOSE k \in 1..Len(s) :
                  /\ \A j \in 1..Len(s) : s[k].score <= s[j].score
                  /\ \A j \in 1..(k - 1) : s[j].score > s[k].score
       IN <<s[k]>> \o SortScored(SubSeq(s, 1, k - 1) \o SubSeq(s, k + 1, Len(s)))

pickRelevantControlsNearSubmit(page, submitId, controls) ==
  LET allowed(c) ==
        \/ c.tag \in {"select", "textarea"}
        \/ c.tag = "input" /\ inferElementType(c) \in {"text", "email", "password", "search", "tel", "url", "number", ""}
      filtered == SelectSeq(controls, allowed)
      scored == [k \in 1..Len(filtered) |->
                   [f |-> filtered[k], score |-> ControlScore(page, submitId, filtered[k])]]
      sorted == SortScored(scored)
  IN IF submitId = Undef THEN Slice(filtered, 3)
     ELSE [k \in 1..Min(3, Len(sorted)) |-> sorted[k].f]

IsSubmitControl(e) ==
  \/ e.tag = "button"
  \/ e.tag = "input" /\ e.type = "submit"
  \/ e.type = "submit"
  \/ e.text # "" /\ SubmitText(e.text)

\* Navigation tests that aim at the text of the link, not at its id.
navTestsByText(page) ==
  LET isNav(e) == e.tag = "a" \/ (e.tag = "button" /\ NavVerbText(e.text))
      mk(link) ==
        <<[id |-> <<"nav", page.id, link.id>>,
           name |-> <<"Navigate via", link.tag, IF link.text # "" THEN link.text ELSE link.id>>,
           pageModelId |-> page.id, negative |-> FALSE, tags |-> {"heuristic", "nav"},
           steps |-> <<Step("click", link.text, Undef, Undef),
                       Step("assert-url", Undef, Undef, "not:" \o page.url)>>]>>
  IN FlatMap(Slice(SelectSeq(page.elements, isNav), 5), mk)

\* The navigation tests without the limit of five.
navTestsOfAll(page) ==
  LET isNav(e) == e.tag = "a" \/ (e.tag = "button" /\ NavVerbText(e.text))
      mk(link) ==
        <<[id |-> <<"nav", page.id, link.id>>,
           name |-> <<"Navigate via", link.tag, IF link.text # "" THEN link.text ELSE link.id>>,
           pageModelId |-> page.id, negative |-> FALSE, tags |-> {"heuristic", "nav"},
           steps |-> <<Step("click", link.id, Undef, Undef),
                       Step("assert-url", Undef, Undef, "not:" \o page.url)>>]>>
  IN FlatMap(SelectSeq(page.elements, isNav), mk)

navTests(page) ==
  LET isNav(e) == e.tag = "a" \/ (e.tag = "button" /\ NavVerbText(e.text))
      mk(link) ==
        <<[id |-> <<"nav", page.id, link.id>>,
           name |-> <<"Navigate via", link.tag, IF link.text # "" THEN link.text ELSE link.id>>,
           pageModelId |-> page.id, negative |-> FALSE, tags |-> {"heuristic", "nav"},
           steps |-> <<Step("click", link.id, Undef, Undef),
                       Step("assert-url", Undef, Undef, "not:" \o page.url)>>]>>
  IN FlatMap(Slice(SelectSeq(page.elements, isNav), 5), mk)

\* The field left blank is the first ranked one, whatever is required.
requiredAlwaysFirst(relevant) == Slice(relevant, 1)

\* relevant.find(f => f.attributes['required'] !== undefined) || relevant[0]
requiredOf(relevant) ==
  LET hasRequired(f) == f.required
  IN IF Find(relevant, hasRequired) # <<>> THEN Find(relevant, hasRequired)
     ELSE Slice(relevant, 1)

formTests(page) ==
  LET isControl(e) == e.tag \in {"input", "select", "textarea"}
      controlElements == SelectSeq(page.elements, isControl)
      submitBtn == Find(page.elements, IsSubmitControl)
      submitBtnId == IF submitBtn = <<>> THEN Undef ELSE submitBtn[1].id
      submitFormId == IF submitBtn = <<>> THEN Undef ELSE submitBtn[1].containerFormId
      inForm(c) == c.containerFormId = submitFormId
      controlsInForm == IF submitFormId # Undef THEN SelectSeq(controlElements, inForm)
                        ELSE controlElements
      relevant == pickRelevantControlsNearSubmit(page, submitBtnId, controlsInForm)
      required == requiredOf(relevant)
      happyStep(f) ==
        <<Step(IF f.tag = "select" THEN "select" ELSE "fill", f.id,
               dummyValueFor(inferElementType(f)), Undef)>>
      negStep(f) ==
        <<Step(IF f.tag = "select" THEN "select" ELSE "fill", f.id,
               IF f.id = required[1].id THEN "" ELSE dummyValueFor(inferElementType(f)), Undef)>>
      happy ==
        [id |-> <<"happy", page.id>>, name |-> <<"Form submission happy path", page.title>>,
         pageModelId |-> page.id, negative |-> FALSE, tags |-> {"heuristic", "form"},
         steps |-> FlatMap(relevant, happyStep) \o <<Step("click", submitBtnId, Undef, Undef)>>]
      neg ==
        [id |-> <<"neg", page.id>>, name |-> <<"Form missing required field", required[1].id>>,
         pageModelId |-> page.id, negative |-> TRUE, tags |-> {"heuristic", "form", "negative"},
         steps |-> FlatMap(relevant, negStep)
                   \o <<Step("click", submitBtnId, Undef, "Validation error displayed")>>]
  IN IF controlElements = <<>> THEN <<>>
     ELSE <<happy>> \o (IF required # <<>> THEN <<neg>> ELSE <<>>)

checkboxTests(page) ==
  LET isCb(e) == e.tag = "input" /\ e.type = "checkbox"
      mk(cb) ==
        <<[id |-> <<"cb", page.id, cb.id>>, name |-> <<"Toggle checkbox", cb.id>>,
           pageModelId |-> page.id, negative |-> FALSE, tags |-> {"heuristic", "checkbox"},
           steps |-> <<Step("click", cb.id, Undef, Undef),
                       Step("assert-visible", cb.id, Undef, Undef)>>]>>
  IN FlatMap(Slice(SelectSeq(page.elements, isCb), 3), mk)

modalTests(page) ==
  LET isOpener(e) == e.tag \in {"button", "a"} /\ OpenText(e.text)
      isCloser(e) == e.tag \in {"button", "a"} /\ CloseText(e.text)
      modalOpener == Find(page.elements, isOpener)
      modalCloser == Find(page.elements, isCloser)
  IN IF modalOpener # <<>> /\ modalCloser # <<>>
     THEN <<[id |-> <<"modal", page.id>>, name |-> <<"Open and close modal (heuristic)">>,
             pageModelId |-> page.id, negative |-> FALSE, tags |-> {"heuristic", "modal"},
             steps |-> <<Step("click", modalOpener[1].id, Undef, Undef),
                         Step("assert-text", Undef, Undef, "close"),
                         Step("click", modalCloser[1].id, Undef, Undef)>>]>>
     ELSE <<>>

generateTests(page) ==
  navTests(page) \o formTests(page) \o checkboxTests(page) \o modalTests(page)

\* ------------------------------------------------------------- the crawler

\* What the network and the browser engine do for one call of crawl: whether
\* Playwright can be imported and launched, whether page.goto and fetch of the
\* start URL succeed, and the pages a successful crawl finds.
CrawlEnvs(sites) ==
  [engineOk : BOOLEAN, navOk : BOOLEAN, fetchOk : BOOLEAN, site : sites]

Thrown(message, attempts) ==
  [thrown |-> TRUE, message |-> message, pages |-> <<>>, warnings |-> <<>>,
   attempts |-> attempts]

Returned(pages, warnings, attempts) ==
  [thrown |-> FALSE, message |-> "", pages |-> pages, warnings |-> warnings,
   attempts |-> attempts]

\* attempts is the list of the strategies run, with what each obtained.
crawlStatic(startUrl, env) ==
  IF ~ValidUrl(startUrl) THEN Thrown("Invalid URL", <<[strategy |-> "static", got |-> "thrown"]>>)
  ELSE IF ~env.fetchOk
    THEN Returned(<<>>, <<"Failed to fetch " \o startUrl>>,
                  <<[strategy |-> "static", got |-> "nopage"]>>)
    ELSE Returned(env.site, <<>>, <<[strategy |-> "static", got |-> "pages"]>>)

crawlDynamic(startUrl, env) ==
  IF ~ValidUrl(startUrl) THEN Thrown("Invalid URL", <<[strategy |-> "dynamic", got |-> "thrown"]>>)
  ELSE IF ~env.engineOk
    THEN Thrown("Playwright not available", <<[strategy |-> "dynamic", got |-> "thrown"]>>)
  ELSE IF ~env.navOk
    THEN Returned(<<>>, <<"Failed to navigate " \o startUrl>>,
                  <<[strategy |-> "dynamic", got |-> "nopage"]>>)
    ELSE Returned(env.site, <<>>, <<[strategy |-> "dynamic", got |-> "pages"]>>)

FallbackWarning == "Dynamic crawl failed; fell back to static."

crawl(startUrl, dynamic, dynamicDisabled, env) ==
  IF dynamic /\ ~dynamicDisabled
  THEN LET d == crawlDynamic(startUrl, env)
           fallback == crawlStatic(startUrl, env)
       IN IF ~d.thrown THEN d
          ELSE IF fallback.thrown THEN Thrown(fallback.message, d.attempts \o fallback.attempts)
          ELSE Returned(fallback.pages, Append(fallback.warnings, FallbackWarning),
                        d.attempts \o fallback.attempts)
  ELSE crawlStatic(startUrl, env)

\* ------------------------------------------------------ orchestrator events

RunId == "r1"

PhaseEv(phase, message) == [type |-> "phase", runId |-> RunId, phase |-> phase, message |-> message]
ProgressEv(current, total, testName) ==
  [type |-> "test-progress", runId |-> RunId, current |-> current, total |-> total,
   testName |-> testName]
StepEv(testId, stepIndex, st, screenshot) ==
  [type |-> "test-step", runId |-> RunId, testId |-> testId, stepIndex |-> stepIndex,
   status |-> st, screenshot |-> screenshot]
ErrorEv(error) == [type |-> "error", runId |-> RunId, error |-> error]
CompletedEv(summary) == [type |-> "completed", runId |-> RunId, summary |-> summary]

\* ----------------------------------------------------------- configurations

ImageAsset == [id |-> "a1", kind |-> "image", mime |-> "image/png", path |-> "uploads/a1.png"]

\* An OrchestratorConfig: credentials is whether credentials are supplied,
\* assets the uploaded assets (<<>> when none).
\* A malformed URL ends the run in the crawl, whatever the options; credentials
\* and assets are tried one at a time, without the AI provider, and the AI
\* provider with the static crawl.
Configs ==
  {c \in [url : {StartUrl, BadUrl}, dynamic : BOOLEAN, aiGenerated : BOOLEAN,
          credentials : BOOLEAN, assets : {<<>>, <<ImageAsset>>}] :
     /\ c.url = BadUrl => ~c.aiGenerated /\ ~c.credentials /\ c.assets = <<>>
     /\ c.credentials => ~c.aiGenerated /\ c.assets = <<>>
     /\ c.assets # <<>> => ~c.aiGenerated
     /\ c.aiGenerated => ~c.dynamic}

\* ------------------------------------------------------------------- state

VARIABLES
  envDisableDynamic,  \* process.env.DISABLE_DYNAMIC_CRAWL === 'true'
  inStore,            \* runStore.has(runId)
  pc,                 \* the position of startRun
  pend,               \* the event push is called with, and where it returns to
  config,
  status,             \* record.status; "absent" before startRun creates the record
  events,             \* record.events
  results,            \* record.results, <<>> while undefined
  recTests,           \* record.tests, <<>> while undefined
  aiGeneration,       \* record.aiGeneration
  emitted,            \* the calls of emit, each with the log it could see
  crawlResult,        \* <<>> while null, else <<CrawlResult>>
  dynamicAttempted,
  attempts,           \* the crawl strategies run so far for this run
  tests,
  coverageObj,
  i, passed, failed, screenshots, perTestResults,
  j, stepResults,     \* runTest's loop index and stepResults
  lastRun,            \* what runTest has last returned, <<>> before
  started,            \* per test index, the number of calls of runTest
  executing,          \* the test indices runTest is executing
  browsersOpen,       \* browsers launched by runTest and not closed
  faults,
  rejected,           \* startRun's promise has rejected
  spc,                \* the position of the subscriber's stream
  waitedMs,           \* the grace period waited so far
  lastLen,            \* how much of the log the stream has sent
  delivered,          \* the messages the stream has enqueued
  closedBy,           \* why the stream was closed, "none" while open
  beats,              \* heartbeats sent
  stepErr,            \* the message of the exception a step's catch has caught
  fnIn,               \* the input a function of the program is applied to
  fnOut,              \* what it returned, <<>> before
  store,              \* several runs: the run ids runStore has an entry for
  recs,               \* several runs: the record object each startRun call created
  tpc,                \* several runs: where each run's task stands
  seen,               \* several runs: what the last reader was answered
  crawlIn,            \* one crawl: the start URL, the options and the web crawled
  bfs                 \* one crawl: queue, visited, pages, warnings of the loop

orchVars ==
  <<envDisableDynamic, inStore, pc, pend, config, status, events, results, recTests,
    aiGeneration, emitted, crawlResult, dynamicAttempted, attempts, tests, coverageObj,
    i, passed, failed, screenshots, perTestResults, j, stepResults, lastRun, started,
    executing, browsersOpen, faults, rejected, stepErr>>

subVars == <<spc, waitedMs, lastLen, delivered, closedBy, beats>>

fnVars == <<fnIn, fnOut>>
runsVars == <<store, recs, tpc, seen>>
bfsVars == <<crawlIn, bfs>>
auxVars == <<fnVars, runsVars, bfsVars>>

\* What startRun never touches.
restVars == <<subVars, auxVars>>

vars == <<orchVars, subVars, auxVars>>

NoPend == [e |-> ErrorEv(""), next |-> "none", ctx |-> "none"]
NoConfig == [url |-> "", dynamic |-> FALSE, aiGenerated |-> FALSE, credentials |-> FALSE,
             assets |-> <<>>]

\* The positions where startRun is suspended at an await (or not running).
AwaitPcs == {"idle", "crawlDynamic", "crawlStatic", "ai", "runTest", "step", "stepCatch",
             "testEnd", "done"}

\* No run registered, no stream open.
InitRun ==
  /\ envDisableDynamic \in BOOLEAN
  /\ inStore = FALSE
  /\ pc = "idle"
  /\ pend = NoPend
  /\ config = NoConfig
  /\ status = "absent"
  /\ events = <<>>
  /\ results = <<>>
  /\ recTests = <<>>
  /\ aiGeneration = [used |-> FALSE, set |-> FALSE]
  /\ emitted = <<>>
  /\ crawlResult = <<>>
  /\ dynamicAttempted = FALSE
  /\ attempts = <<>>
  /\ tests = <<>>
  /\ coverageObj = <<>>
  /\ i = 0 /\ passed = 0 /\ failed = 0 /\ screenshots = <<>> /\ perTestResults = <<>>
  /\ j = 0 /\ stepResults = <<>>
  /\ lastRun = <<>>
  /\ started = <<>>
  /\ executing = {}
  /\ browsersOpen = 0
  /\ faults = 0
  /\ rejected = FALSE
  /\ spc = "none"
  /\ waitedMs = 0
  /\ lastLen = 0
  /\ delivered = <<>>
  /\ closedBy = "none"
  /\ beats = 0
  /\ stepErr = Undef

NoInput == [fn |-> "none"]

\* No function applied.
InitNoFn ==
  /\ fnIn = NoInput
  /\ fnOut = <<>>

\* The run ids of the runs started side by side.
RunIds == {"r1", "r2"}

NoRecord == [status |-> "absent", events |-> <<>>, tests |-> <<>>, results |-> <<>>]

\* An empty runStore.
InitRuns ==
  /\ store = {}
  /\ recs = [r \in RunIds |-> NoRecord]
  /\ tpc = [r \in RunIds |-> "idle"]
  /\ seen = <<>>

NoCrawl == [startUrl |-> "none"]

\* No crawl of its own running.
InitNoCrawl ==
  /\ crawlIn = NoCrawl
  /\ bfs = [pc |-> "idle"]

Init ==
  /\ InitRun
  /\ InitNoFn
  /\ InitRuns
  /\ InitNoCrawl

\* ------------------------------------------------------------ push and emit

\* The emit callback called before the event is in the log.
PushEmittedBeforeAppend(e) ==
  Append(emitted, [e |-> e, seen |-> Len(events), last |-> FALSE])

\* const push = (e) => { record.events.push(e); record.updatedAt = ...; emit(e); }
\* The call of emit is recorded with the length of the log at the call and
\* whether e is its last entry.
PushLog(e) == Append(events, e)
PushEmitted(e) ==
  LET log == PushLog(e)
  IN Append(emitted, [e |-> e, seen |-> Len(log), last |-> log[Len(log)] = e])

\* Call push(e) next; next is where the code goes on when push returns, ctx the
\* try block the call stands in.
CallPush(e, next, ctx) ==
  /\ pc' = "push"
  /\ pend' = [e |-> e, next |-> next, ctx |-> ctx]

\* The catch of startRun (lines 297-301): whatever the try block throws.
CatchOuter(message) ==
  /\ status' = "error"
  /\ CallPush(ErrorEv(message), "done", "catch")

\* The catch around runTest that does not count the test.
CatchRunTestUncounted(message) ==
  /\ failed' = failed
  /\ executing' = executing \ {i + 1}
  /\ CallPush(PhaseEv("execute", "Test failed: " \o message), "loopNext", "try")

\* The catch around runTest (lines 284-287).
CatchRunTest(message) ==
  /\ failed' = failed + 1
  /\ executing' = executing \ {i + 1}
  /\ CallPush(PhaseEv("execute", "Test failed: " \o message), "loopNext", "try")

ctlVars == <<envDisableDynamic, inStore, config, rejected>>
recVars == <<status, results, recTests, aiGeneration>>
logVars == <<events, emitted>>
crawlVars == <<crawlResult, dynamicAttempted, attempts>>
genVars == <<tests, coverageObj>>
execVars == <<i, passed, failed, screenshots, perTestResults>>
runVars == <<j, stepResults, lastRun, started, executing, browsersOpen>>

\* push: the event is appended to the log, then emit is called with it.
PushAppend ==
  /\ pc = "push"
  /\ events' = PushLog(pend.e)
  /\ emitted' = PushEmitted(pend.e)

\* emit returns normally
PushReturns ==
  /\ PushAppend
  /\ pc' = pend.next
  /\ pend' = NoPend
  /\ UNCHANGED <<ctlVars, recVars, crawlVars, genVars, execVars, runVars, faults>>
  /\ UNCHANGED restVars
  /\ UNCHANGED stepErr

\* emit throws in the try block of startRun, outside runTest
PushThrowsInTry ==
  /\ PushAppend
  /\ pend.ctx = "try"
  /\ faults < MaxFaults
  /\ faults' = faults + 1
  /\ CatchOuter("emit threw")
  /\ UNCHANGED <<ctlVars, results, recTests, aiGeneration, crawlVars, genVars, execVars, runVars>>
  /\ UNCHANGED restVars
  /\ UNCHANGED stepErr

\* emit throws in onEvent, called in the try block of a step (runner line 55):
\* the step's catch takes it
PushThrowsInStepTry ==
  /\ PushAppend
  /\ pend.ctx = "stepTry"
  /\ faults < MaxFaults
  /\ faults' = faults + 1
  /\ pc' = "stepCatch"
  /\ stepErr' = "emit threw"
  /\ pend' = NoPend
  /\ UNCHANGED <<ctlVars, recVars, crawlVars, genVars, execVars, runVars>>
  /\ UNCHANGED restVars

\* emit throws in onEvent, called in the catch block of a step (runner line 60):
\* runTest throws, the catch around runTest takes it
PushThrowsInStepCatch ==
  /\ PushAppend
  /\ pend.ctx = "stepCatch"
  /\ faults < MaxFaults
  /\ faults' = faults + 1
  /\ CatchRunTest("emit threw")
  /\ UNCHANGED <<ctlVars, recVars, crawlVars, genVars, i, passed, screenshots, perTestResults,
                 j, stepResults, lastRun, started, browsersOpen>>
  /\ UNCHANGED restVars
  /\ UNCHANGED stepErr

\* emit throws in the push of 'Dynamic crawl succeeded' (line 76): the catch of
\* that try block takes it; crawlResult is set, so no static crawl follows
PushThrowsInDynTry ==
  /\ PushAppend
  /\ pend.ctx = "dynTry"
  /\ faults < MaxFaults
  /\ faults' = faults + 1
  /\ CallPush(PhaseEv("crawl", "Dynamic crawl failed (emit threw) falling back to static"),
              "genStart", "try")
  /\ UNCHANGED <<ctlVars, recVars, crawlVars, genVars, execVars, runVars>>
  /\ UNCHANGED restVars
  /\ UNCHANGED stepErr

\* emit throws in the push that follows the static crawl (lines 85-89): the
\* catch of that try block throws the compound error
PushThrowsInStaticTry ==
  /\ PushAppend
  /\ pend.ctx = "staticTry"
  /\ faults < MaxFaults
  /\ faults' = faults + 1
  /\ CatchOuter("Both dynamic and static crawl failed: emit threw")
  /\ UNCHANGED <<ctlVars, results, recTests, aiGeneration, crawlVars, genVars, execVars, runVars>>
  /\ UNCHANGED restVars
  /\ UNCHANGED stepErr

\* emit throws in the catch block of startRun: the promise of startRun rejects
PushThrowsInCatch ==
  /\ PushAppend
  /\ pend.ctx = "catch"
  /\ faults < MaxFaults
  /\ faults' = faults + 1
  /\ pc' = "done"
  /\ pend' = NoPend
  /\ rejected' = TRUE
  /\ UNCHANGED <<envDisableDynamic, inStore, config, recVars, crawlVars, genVars, execVars, runVars>>
  /\ UNCHANGED restVars
  /\ UNCHANGED stepErr

\* ----------------------------------------------------- startRun: crawl phase

StartRun(cfg) ==
  /\ pc = "idle"
  /\ config' = cfg
  /\ status' = "running"
  /\ inStore' = TRUE
  /\ LET dynamicAllowed == IF envDisableDynamic THEN FALSE ELSE cfg.dynamic
     IN /\ dynamicAttempted' = dynamicAllowed
        /\ CallPush(PhaseEv("crawl", "Starting crawl"),
                    IF dynamicAllowed THEN "crawlDynamic" ELSE "crawlStatic", "try")
  /\ UNCHANGED <<envDisableDynamic, rejected, results, recTests, aiGeneration, logVars,
                 crawlResult, attempts, genVars, execVars, runVars, faults>>
  /\ UNCHANGED restVars
  /\ UNCHANGED stepErr

\* await crawl(config.url, { dynamic: true }) settles
CrawlDynamicDone(sites) ==
  /\ pc = "crawlDynamic"
  /\ \E env \in CrawlEnvs(sites) :
       LET r == crawl(config.url, TRUE, envDisableDynamic, env)
       IN /\ attempts' = attempts \o r.attempts
          /\ IF r.thrown
             THEN /\ crawlResult' = crawlResult
                  /\ CallPush(PhaseEv("crawl", "Dynamic crawl failed (" \o r.message
                                               \o ") falling back to static"),
                              "crawlStatic", "try")
             ELSE /\ crawlResult' = <<[pages |-> r.pages, warnings |-> r.warnings]>>
                  /\ CallPush(PhaseEv("crawl", "Dynamic crawl succeeded"), "genStart", "dynTry")
  /\ UNCHANGED <<ctlVars, recVars, logVars, dynamicAttempted, genVars, execVars, runVars, faults>>
  /\ UNCHANGED restVars
  /\ UNCHANGED stepErr

\* await crawl(config.url, { dynamic: false }) settles
CrawlStaticDone(sites) ==
  /\ pc = "crawlStatic"
  /\ \E env \in CrawlEnvs(sites) :
       LET r == crawl(config.url, FALSE, envDisableDynamic, env)
       IN /\ attempts' = attempts \o r.attempts
          /\ IF r.thrown
             THEN /\ crawlResult' = crawlResult
                  /\ CatchOuter("Both dynamic and static crawl failed: " \o r.message)
             ELSE /\ crawlResult' = <<[pages |-> r.pages, warnings |-> r.warnings]>>
                  /\ status' = status
                  /\ CallPush(PhaseEv("crawl", IF dynamicAttempted
                                               THEN "Static crawl fallback succeeded"
                                               ELSE "Static crawl succeeded"),
                              "genStart", "staticTry")
  /\ UNCHANGED <<ctlVars, results, recTests, aiGeneration, logVars, dynamicAttempted, genVars,
                 execVars, runVars, faults>>
  /\ UNCHANGED restVars
  /\ UNCHANGED stepErr

\* -------------------------------------------------- startRun: generate phase

Pages == crawlResult[1].pages

Count(s, P(_)) == Cardinality({k \in 1..Len(s) : P(s[k])})

RECURSIVE SumSeq(_)
SumSeq(s) == IF s = <<>> THEN 0 ELSE Head(s) + SumSeq(Tail(s))

SeqsUpTo(S, n) == UNION {[1..k -> S] : k \in 0..n}

\* Tests an AI provider may return: the ids, the negative flag, the
\* pageModelId and the steps are whatever the model wrote ('unknown' when it
\* gave no page and no page was crawled).
AiNegativeTest ==
  [id |-> <<"ai", 1>>, name |-> <<"AI Generated Test">>, pageModelId |-> "p1",
   negative |-> TRUE, tags |-> {"ai"},
   steps |-> <<Step("hover", Undef, Undef, Undef),
               Step("fill", "missing", "x", Undef),
               Step("click", Undef, Undef, Undef)>>]
AiUnknownPageTest ==
  [id |-> <<"ai", 2>>, name |-> <<"AI Generated Test">>, pageModelId |-> "unknown",
   negative |-> FALSE, tags |-> {"ai"},
   steps |-> <<Step("assert-url", Undef, Undef, "contains:/a")>>]
AiCatalog == {AiNegativeTest, AiUnknownPageTest}

GenStart ==
  /\ pc = "genStart"
  /\ CallPush(PhaseEv("generate", "Generating tests"), "heuristics", "try")
  /\ UNCHANGED <<ctlVars, recVars, logVars, crawlVars, genVars, execVars, runVars, faults>>
  /\ UNCHANGED restVars
  /\ UNCHANGED stepErr

\* let tests = crawlResult.pages.flatMap(p => generateTests(p, requirements))
Heuristics ==
  /\ pc = "heuristics"
  /\ tests' = FlatMap(Pages, generateTests)
  /\ pc' = IF config.aiGenerated THEN "ai" ELSE "dedup"
  /\ UNCHANGED <<ctlVars, pend, recVars, logVars, crawlVars, coverageObj, execVars, runVars, faults>>
  /\ UNCHANGED restVars
  /\ UNCHANGED stepErr

\* await getAiProvider({}) and await ai.generateTests(...) settle with a list
AiReturns ==
  /\ pc = "ai"
  /\ \E aiTests \in SeqsUpTo(AiCatalog, MaxAiTests) :
       IF aiTests # <<>>
       THEN /\ tests' = tests \o aiTests
            /\ aiGeneration' = [used |-> TRUE, set |-> TRUE]
            /\ CallPush(PhaseEv("generate", "AI generated tests"), "dedup", "aiTry")
       ELSE /\ tests' = tests
            /\ aiGeneration' = [used |-> FALSE, set |-> TRUE]
            /\ CallPush(PhaseEv("generate", "AI provider returned no tests (using heuristics only)"),
                        "dedup", "aiTry")
  /\ UNCHANGED <<ctlVars, status, results, recTests, logVars, crawlVars, coverageObj, execVars,
                 runVars, faults>>
  /\ UNCHANGED restVars
  /\ UNCHANGED stepErr

\* emit throws in a push of the try block around the AI provider (lines 113 and
\* 116): the catch of that block takes it, the tests already appended stay
PushThrowsInAiTry ==
  /\ PushAppend
  /\ pend.ctx = "aiTry"
  /\ faults < MaxFaults
  /\ faults' = faults + 1
  /\ aiGeneration' = [used |-> FALSE, set |-> TRUE]
  /\ CallPush(PhaseEv("generate", "AI generation skipped"), "dedup", "try")
  /\ UNCHANGED <<ctlVars, status, results, recTests, crawlVars, genVars, execVars, runVars>>
  /\ UNCHANGED restVars
  /\ UNCHANGED stepErr

\* The provider's failure ends the run: the catch of startRun takes it.
AiThrowsToCatch ==
  /\ pc = "ai"
  /\ aiGeneration' = aiGeneration
  /\ CatchOuter("AI generation failed")
  /\ UNCHANGED <<ctlVars, results, recTests, logVars, crawlVars, genVars, execVars,
                 runVars, faults>>
  /\ UNCHANGED restVars
  /\ UNCHANGED stepErr

\* one of them rejects
AiThrows ==
  /\ pc = "ai"
  /\ aiGeneration' = [used |-> FALSE, set |-> TRUE]
  /\ CallPush(PhaseEv("generate", "AI generation skipped"), "dedup", "try")
  /\ UNCHANGED <<ctlVars, status, results, recTests, logVars, crawlVars, genVars, execVars,
                 runVars, faults>>
  /\ UNCHANGED restVars
  /\ UNCHANGED stepErr

\* A test counted as a navigation test on the tag nav alone.
IsNavTestByNavTag(t) == "nav" \in t.tags

IsNavTest(t) == "heuristic" \in t.tags /\ "nav" \in t.tags

\* t.steps?.[0]?.targetElementId || t.name
NavSig(t) ==
  IF t.steps # <<>> /\ t.steps[1].targetElementId \notin {Undef, ""}
  THEN <<"target", t.steps[1].targetElementId>>
  ELSE <<"name", t.name>>

RECURSIVE DedupFrom(_, _)
DedupFrom(ts, seenNav) ==
  IF ts = <<>> THEN <<>>
  ELSE LET t == Head(ts)
       IN IF IsNavTest(t)
          THEN IF NavSig(t) \in seenNav THEN DedupFrom(Tail(ts), seenNav)
               ELSE <<t>> \o DedupFrom(Tail(ts), seenNav \cup {NavSig(t)})
          ELSE <<t>> \o DedupFrom(Tail(ts), seenNav)

Dedup(ts) == DedupFrom(ts, {})

\* Math.round((a / b) * 100) for 0 <= a and 0 < b
Percent(a, b) == (200 * a + b) \div (2 * b)

Coverage(pages, ts) ==
  LET pagesFound == Len(pages)
      pagesTestedSet == {ts[k].pageModelId : k \in 1..Len(ts)} \ {""}
      allSteps == FlatMap(ts, LAMBDA t : t.steps)
      clickTargets == {allSteps[k].targetElementId :
                         k \in {n \in 1..Len(allSteps) :
                                  /\ allSteps[n].action = "click"
                                  /\ allSteps[n].targetElementId \notin {Undef, ""}}}
      formCount(p) == Count(p.elements, LAMBDA e : e.tag = "form")
      formsOf(p) == IF formCount(p) > 0 THEN formCount(p)
                    ELSE IF \E k \in 1..Len(p.elements) : p.elements[k].tag = "input" THEN 1
                    ELSE 0
      formsFound == SumSeq([k \in 1..Len(pages) |-> formsOf(pages[k])])
      formsFilled == Count(allSteps, LAMBDA st : st.action = "upload")
                     + Count(ts, LAMBDA t : "form" \in t.tags \/ "upload" \in t.tags)
      pagesTested == Cardinality(pagesTestedSet)
      routesSet == {pages[k].url : k \in {n \in 1..Len(pages) : pages[n].id \in pagesTestedSet}}
  IN [pagesFound |-> pagesFound,
      pagesTested |-> pagesTested,
      percentPages |-> IF pagesFound > 0 THEN Percent(pagesTested, pagesFound) ELSE 0,
      formsFound |-> formsFound,
      formsFilled |-> Min(formsFilled, formsFound),
      percentForms |-> IF formsFound > 0 THEN Percent(Min(formsFilled, formsFound), formsFound)
                       ELSE 0,
      routesHit |-> Cardinality(routesSet),
      clickableTouched |-> Cardinality(clickTargets)]

\* lines 122-184: the navigation tests are deduplicated, the coverage is computed
DedupAndCoverage ==
  /\ pc = "dedup"
  /\ LET deduped == Dedup(tests)
     IN /\ tests' = deduped
        /\ coverageObj' = <<Coverage(Pages, deduped)>>
        /\ IF Len(deduped) # Len(tests)
           THEN CallPush(PhaseEv("generate", "Deduplicated duplicate navigation tests"),
                         "upload", "try")
           ELSE pc' = "upload" /\ pend' = pend
  /\ UNCHANGED <<ctlVars, recVars, logVars, crawlVars, execVars, runVars, faults>>
  /\ UNCHANGED restVars
  /\ UNCHANGED stepErr

\* A part of the accept attribute names a kind of asset, or none.
AcceptKind(p) ==
  CASE p = "image/*" -> "image"
    [] p = "video/*" -> "video"
    [] p = "application/pdf" -> "pdf"
    [] p \in {"image/png", "image/jpeg"} -> "image"
    [] p \in {"video/mp4"} -> "video"
    [] p \in {".png", ".jpg", ".jpeg", ".gif", ".webp"} -> "image"
    [] p = ".pdf" -> "pdf"
    [] p \in {".mp4", ".webm", ".mov"} -> "video"
    [] OTHER -> "none"

\* accept.split(',').map(s => s.trim()) of the accept values of the pages
AcceptParts(accept) ==
  CASE accept = "" -> <<>>
    [] accept = "image/*,.pdf" -> <<"image/*", ".pdf">>
    [] OTHER -> <<accept>>

selectAssetFor(accept, assets) ==
  LET parts == AcceptParts(accept)
      named == Find(parts, LAMBDA p : AcceptKind(p) # "none")
      ofKind == IF named = <<>> THEN <<>>
                ELSE Find(assets, LAMBDA a : a.kind = AcceptKind(named[1]))
  IN IF accept = "" \/ named = <<>> \/ ofKind = <<>> THEN assets[1] ELSE ofKind[1]

\* /submit|upload|save|send/i
UploadSubmitText(t) == t \in {"Submit", "Upload", "Save", "Send"}

nearestSubmit(page) ==
  LET submit == Find(page.elements,
                     LAMBDA e : \/ e.tag = "button"
                                \/ e.tag = "input" /\ e.type = "submit"
                                \/ e.text # "" /\ UploadSubmitText(e.text))
  IN IF submit = <<>> THEN Undef ELSE submit[1].id

UploadTests(pages, assets) ==
  LET ofInput(page, input) ==
        [id |-> <<"upload", page.id, input.id>>, name |-> <<"File upload", input.name>>,
         pageModelId |-> page.id, negative |-> FALSE, tags |-> {"synthetic", "upload", "form"},
         steps |-> <<Step("upload", input.id, selectAssetFor(input.accept, assets).path, Undef)>>
                   \o (IF nearestSubmit(page) # Undef
                       THEN <<Step("click", nearestSubmit(page), Undef, Undef)>> ELSE <<>>)
                   \o <<Step("assert-url", Undef, Undef, "")>>]
      ofPage(page) ==
        LET fileInputs == SelectSeq(page.elements,
                                    LAMBDA e : e.tag = "input" /\ e.type = "file")
        IN [k \in 1..Len(fileInputs) |-> ofInput(page, fileInputs[k])]
  IN FlatMap(pages, ofPage)

\* lines 185-212
Upload ==
  /\ pc = "upload"
  /\ IF config.assets # <<>>
     THEN /\ tests' = tests \o UploadTests(Pages, config.assets)
          /\ CallPush(PhaseEv("generate", "Added upload tests for detected file inputs"),
                      "login", "try")
     ELSE /\ tests' = tests
          /\ pc' = "login" /\ pend' = pend
  /\ UNCHANGED <<ctlVars, recVars, logVars, crawlVars, coverageObj, execVars, runVars, faults>>
  /\ UNCHANGED restVars
  /\ UNCHANGED stepErr

\* /login|sign\s*in/i on the title, /login|signin/i on the URL
LoginTitle(t) == t \in {"Login", "Sign in", "Signin"}
LoginUrl(u) == u \in {"https://x/login", "https://x/signin"}
\* /submit|login|sign\s*in/i
LoginSubmitText(t) == t \in {"Submit", "Login", "Sign in", "Signin"}
\* /user|email|login/i on the name attribute (the id attribute is not modelled)
UserName(n) == n \in {"username", "user", "email", "login", "user_pass"}

\* '' stands for the credentials the caller supplied
createLoginTest(page) ==
  LET usernameElement == Find(page.elements,
                              LAMBDA e : e.tag = "input"
                                         /\ (e.type \in {"text", "email"} \/ UserName(e.name)))
      passwordElement == Find(page.elements,
                              LAMBDA e : e.tag = "input" /\ e.type = "password")
      submitElement == Find(page.elements,
                            LAMBDA e : \/ e.tag = "button" /\ LoginSubmitText(e.text)
                                       \/ e.tag = "input" /\ e.type = "submit")
  IN IF usernameElement = <<>> \/ passwordElement = <<>> THEN <<>>
     ELSE <<[id |-> <<"login-synthetic", page.id>>,
             name |-> <<"Login (successful authentication)">>,
             pageModelId |-> page.id, negative |-> FALSE,
             tags |-> {"synthetic", "login", "auth"},
             steps |-> <<Step("fill", usernameElement[1].id, "credentials.username", Undef),
                         Step("fill", passwordElement[1].id, "credentials.password", Undef)>>
                       \o (IF submitElement # <<>>
                           THEN <<Step("click", submitElement[1].id, Undef, Undef)>> ELSE <<>>)
                       \o <<Step("assert-url", Undef, Undef, "not:" \o page.url)>>]>>

\* lines 214-229
Login ==
  /\ pc = "login"
  /\ LET loginPage == Find(Pages,
                           LAMBDA p : \/ LoginTitle(p.title)
                                      \/ LoginUrl(p.url)
                                      \/ \E k \in 1..Len(p.elements) :
                                           /\ p.elements[k].tag = "input"
                                           /\ p.elements[k].type = "password")
         loginTest == IF loginPage = <<>> THEN <<>> ELSE createLoginTest(loginPage[1])
     IN IF config.credentials /\ loginTest # <<>>
        THEN /\ tests' = loginTest \o tests
             /\ CallPush(PhaseEv("generate", "Added synthetic login test with provided credentials"),
                         "smoke", "try")
        ELSE /\ tests' = tests
             /\ pc' = "smoke" /\ pend' = pend
  /\ UNCHANGED <<ctlVars, recVars, logVars, crawlVars, coverageObj, execVars, runVars, faults>>
  /\ UNCHANGED restVars
  /\ UNCHANGED stepErr

SmokeTest(firstPage) ==
  [id |-> <<"smoke", firstPage.id>>, name |-> <<"Smoke: load main page">>,
   pageModelId |-> firstPage.id, negative |-> FALSE, tags |-> {"synthetic", "smoke"},
   steps |-> <<Step("assert-url", Undef, Undef, firstPage.url)>>]

\* lines 231-248
Smoke ==
  /\ pc = "smoke"
  /\ IF tests = <<>> /\ Pages # <<>>
     THEN /\ tests' = <<SmokeTest(Pages[1])>>
          /\ CallPush(PhaseEv("generate", "No heuristic tests found; added synthetic smoke test"),
                      "execStart", "try")
     ELSE /\ tests' = tests
          /\ pc' = "execStart" /\ pend' = pend
  /\ UNCHANGED <<ctlVars, recVars, logVars, crawlVars, coverageObj, execVars, runVars, faults>>
  /\ UNCHANGED restVars
  /\ UNCHANGED stepErr

\* --------------------------------------------------- startRun: execute phase

\* lines 249-253
ExecStart ==
  /\ pc = "execStart"
  /\ recTests' = tests
  /\ i' = 0 /\ passed' = 0 /\ failed' = 0 /\ screenshots' = <<>> /\ perTestResults' = <<>>
  /\ started' = [k \in 1..Len(tests) |-> 0]
  /\ CallPush(PhaseEv("execute", "Executing tests"), "loop", "try")
  /\ UNCHANGED <<ctlVars, status, results, aiGeneration, logVars, crawlVars, genVars,
                 j, stepResults, lastRun, executing, browsersOpen, faults>>
  /\ UNCHANGED restVars
  /\ UNCHANGED stepErr

\* The loop taking the first test of the list every time.
CurTestAlwaysFirst == tests[1]

\* The test of the loop, tests[i] in the code (i counts from 0 there).
CurTest == tests[i + 1]

\* lines 254-256: the loop goes on to the next test
LoopStep ==
  /\ pc = "loop"
  /\ i < Len(tests)
  /\ CallPush(ProgressEv(i + 1, Len(tests), CurTest.name), "callRunTest", "try")
  /\ UNCHANGED <<ctlVars, recVars, logVars, crawlVars, genVars, execVars, runVars, faults>>
  /\ UNCHANGED restVars
  /\ UNCHANGED stepErr

\* crawlResult.pages.find(p => p.id === t.pageModelId)
PageModelOf(t) == Find(Pages, LAMBDA p : p.id = t.pageModelId)

\* line 260: runTest is called and startRun awaits it
CallRunTest ==
  /\ pc = "callRunTest"
  /\ started' = [started EXCEPT ![i + 1] = @ + 1]
  /\ executing' = executing \cup {i + 1}
  /\ pc' = "runTest"
  /\ UNCHANGED <<ctlVars, pend, recVars, logVars, crawlVars, genVars, execVars, j, stepResults,
                 lastRun, browsersOpen, faults>>
  /\ UNCHANGED restVars
  /\ UNCHANGED stepErr

\* ------------------------------------------------------------------ runTest

\* runner lines 38-39: Playwright cannot be imported, or the browser not launched
RunTestNoBrowser ==
  /\ pc = "runTest"
  /\ faults < MaxFaults
  /\ faults' = faults + 1
  /\ CatchRunTest("Playwright not available")
  /\ UNCHANGED <<ctlVars, recVars, logVars, crawlVars, genVars, i, passed, screenshots,
                 perTestResults, j, stepResults, lastRun, started, browsersOpen>>
  /\ UNCHANGED restVars
  /\ UNCHANGED stepErr

\* runner line 42: page.goto throws, or pageModel is undefined (no page has the
\* test's pageModelId) and reading pageModel.url throws; the browser is open
RunTestGotoThrows ==
  /\ pc = "runTest"
  /\ \/ /\ PageModelOf(CurTest) = <<>>
        /\ faults' = faults
     \/ /\ PageModelOf(CurTest) # <<>>
        /\ faults < MaxFaults
        /\ faults' = faults + 1
  /\ browsersOpen' = browsersOpen + 1
  /\ CatchRunTest("navigation failed")
  /\ UNCHANGED <<ctlVars, recVars, logVars, crawlVars, genVars, i, passed, screenshots,
                 perTestResults, j, stepResults, lastRun, started>>
  /\ UNCHANGED restVars
  /\ UNCHANGED stepErr

\* runner lines 38-46: the page is loaded, the loop over the steps starts
RunTestSetup ==
  /\ pc = "runTest"
  /\ PageModelOf(CurTest) # <<>>
  /\ browsersOpen' = browsersOpen + 1
  /\ j' = 0
  /\ stepResults' = <<>>
  /\ pc' = IF CurTest.steps = <<>> THEN "testEnd" ELSE "step"
  /\ UNCHANGED <<ctlVars, pend, recVars, logVars, crawlVars, genVars, execVars, lastRun, started,
                 executing, faults>>
  /\ UNCHANGED restVars
  /\ UNCHANGED stepErr

\* performStep with the target check of the element actions left out.
NeedsTargetOnlyAsserts(action) ==
  action \in {"assert-visible", "assert-hidden", "assert-checked"}

\* The actions performStep refuses without a target element.
NeedsTarget(action) ==
  action \in {"upload", "fill", "click", "select", "assert-visible", "assert-hidden",
              "assert-checked"}

TargetOf(step, model) ==
  IF step.targetElementId \in {Undef, ""} THEN <<>>
  ELSE Find(model.elements, LAMBDA e : e.id = step.targetElementId)

\* performStep always throws: no target element, or an upload without a path
StepMustFail(step, model) ==
  \/ NeedsTarget(step.action) /\ TargetOf(step, model) = <<>>
  \/ step.action = "upload" /\ step.inputData \in {Undef, ""}

\* The message of the Error performStep throws when it must.
PerformStepError(step, model) ==
  IF NeedsTarget(step.action) /\ TargetOf(step, model) = <<>>
  THEN "No target element for " \o step.action
  ELSE "No file path provided for upload"

\* performStep never throws: an assertion with nothing expected, an unknown action
StepMustPass(step) ==
  \/ step.action \in {"assert-text", "assert-url"} /\ step.expected \in {Undef, ""}
  \/ ~NeedsTarget(step.action) /\ step.action \notin {"assert-text", "assert-url"}

\* path.join(testDir, `step${i + 1}.png`) or `step${i + 1}-error.png`
Shot(t, k, error) ==
  [dir |-> "apps/web/artifacts", test |-> t.id, step |-> k + 1, error |-> error]

\* orchestrator lines 264-274: the evidence path under /api/artifacts/
ArtifactUrl(evidence) ==
  [base |-> "/api/artifacts", test |-> evidence.test, step |-> evidence.step,
   error |-> evidence.error]

CurStep == CurTest.steps[j + 1]

\* runner lines 49-55: the action and the screenshot succeed, the step is
\* recorded as passed and onEvent is called with step-end
StepPasses ==
  /\ pc = "step"
  /\ ~StepMustFail(CurStep, PageModelOf(CurTest)[1])
  /\ stepResults' = Append(stepResults,
                           [stepIndex |-> j, status |-> "passed", error |-> Undef,
                            evidence |-> Shot(CurTest, j, FALSE)])
  /\ CallPush(StepEv(CurTest.id, j, "passed", ArtifactUrl(Shot(CurTest, j, FALSE))),
              "afterStepEnd", "stepTry")
  /\ UNCHANGED <<ctlVars, recVars, logVars, crawlVars, genVars, execVars, j, lastRun, started,
                 executing, browsersOpen, faults>>
  /\ UNCHANGED restVars
  /\ UNCHANGED stepErr

\* runner lines 51 and 56: performStep throws
StepActionThrows ==
  /\ pc = "step"
  /\ \/ /\ StepMustFail(CurStep, PageModelOf(CurTest)[1])
        /\ stepErr' = PerformStepError(CurStep, PageModelOf(CurTest)[1])
        /\ faults' = faults
     \/ /\ ~StepMustFail(CurStep, PageModelOf(CurTest)[1])
        /\ ~StepMustPass(CurStep)
        /\ faults < MaxFaults
        /\ stepErr' = "action failed"
        /\ faults' = faults + 1
  /\ pc' = "stepCatch"
  /\ UNCHANGED <<ctlVars, pend, recVars, logVars, crawlVars, genVars, execVars, runVars>>
  /\ UNCHANGED restVars

\* runner lines 53 and 56: the action succeeds and page.screenshot throws
StepScreenshotThrows ==
  /\ pc = "step"
  /\ ~StepMustFail(CurStep, PageModelOf(CurTest)[1])
  /\ faults < MaxFaults
  /\ faults' = faults + 1
  /\ stepErr' = "screenshot failed"
  /\ pc' = "stepCatch"
  /\ UNCHANGED <<ctlVars, pend, recVars, logVars, crawlVars, genVars, execVars, runVars>>
  /\ UNCHANGED restVars

\* runner lines 57-60: the catch of a step; the failure of its own screenshot is
\* swallowed, the step is recorded as failed and onEvent is called with step-end
StepCatch ==
  /\ pc = "stepCatch"
  /\ stepResults' = Append(stepResults,
                           [stepIndex |-> j, status |-> "failed", error |-> stepErr,
                            evidence |-> Shot(CurTest, j, TRUE)])
  /\ stepErr' = Undef
  /\ CallPush(StepEv(CurTest.id, j, "failed", ArtifactUrl(Shot(CurTest, j, TRUE))),
              "afterStepEnd", "stepCatch")
  /\ UNCHANGED <<ctlVars, recVars, logVars, crawlVars, genVars, execVars, j, lastRun, started,
                 executing, browsersOpen, faults>>
  /\ UNCHANGED restVars

\* orchestrator line 276 after push has returned, then runner lines 46 and 61:
\* a failed step ends the loop of a test that is not negative
AfterStepEnd ==
  /\ pc = "afterStepEnd"
  /\ screenshots' = Append(screenshots, events[Len(events)].screenshot)
  /\ LET last == stepResults[Len(stepResults)]
         break == last.status = "failed" /\ ~CurTest.negative
     IN IF break \/ j + 1 >= Len(CurTest.steps)
        THEN pc' = "testEnd" /\ j' = j
        ELSE pc' = "step" /\ j' = j + 1
  /\ UNCHANGED <<ctlVars, pend, recVars, logVars, crawlVars, genVars, i, passed, failed,
                 perTestResults, stepResults, lastRun, started, executing, browsersOpen, faults>>
  /\ UNCHANGED restVars
  /\ UNCHANGED stepErr

\* The status that forgets the negative flag.
ResultStatusIgnoresNegative(t, srs) ==
  IF \E k \in 1..Len(srs) : srs[k].status = "failed" THEN "failed" ELSE "passed"

\* runner line 65
ResultStatus(t, srs) ==
  IF \E k \in 1..Len(srs) : srs[k].status = "failed"
  THEN (IF t.negative THEN "partial" ELSE "failed")
  ELSE "passed"

\* A partial result counted as passed.
CountsAsPassedOrPartial(result) == result.status \in {"passed", "partial"}

\* orchestrator line 283: result.status === 'passed'
CountsAsPassed(result) == result.status = "passed"

\* runner lines 65-82 and orchestrator lines 282-283: the browser is closed,
\* runTest returns its RunResult, the orchestrator counts it
TestReturns ==
  /\ pc = "testEnd"
  /\ browsersOpen' = browsersOpen - 1
  /\ LET result == [testId |-> CurTest.id, status |-> ResultStatus(CurTest, stepResults),
                    stepResults |-> stepResults]
     IN /\ lastRun' = <<[test |-> i + 1, result |-> result]>>
        /\ perTestResults' = Append(perTestResults, result)
        /\ IF CountsAsPassed(result)
           THEN passed' = passed + 1 /\ failed' = failed
           ELSE passed' = passed /\ failed' = failed + 1
  /\ executing' = executing \ {i + 1}
  /\ i' = i + 1
  /\ pc' = "loop"
  /\ UNCHANGED <<ctlVars, pend, recVars, logVars, crawlVars, genVars, screenshots, j, stepResults,
                 started, faults>>
  /\ UNCHANGED restVars
  /\ UNCHANGED stepErr

\* runner line 66: browser.close throws
TestCloseThrows ==
  /\ pc = "testEnd"
  /\ faults < MaxFaults
  /\ faults' = faults + 1
  /\ CatchRunTest("browser.close failed")
  /\ UNCHANGED <<ctlVars, recVars, logVars, crawlVars, genVars, i, passed, screenshots,
                 perTestResults, j, stepResults, lastRun, started, browsersOpen>>
  /\ UNCHANGED restVars
  /\ UNCHANGED stepErr

\* orchestrator line 254, i++ after the catch around runTest
LoopNext ==
  /\ pc = "loopNext"
  /\ i' = i + 1
  /\ pc' = "loop"
  /\ UNCHANGED <<ctlVars, pend, recVars, logVars, crawlVars, genVars, passed, failed, screenshots,
                 perTestResults, runVars, faults>>
  /\ UNCHANGED restVars
  /\ UNCHANGED stepErr

\* ------------------------------------------------------- startRun: finalize

Summary ==
  [testsGenerated |-> Len(tests), testsPassed |-> passed, testsFailed |-> failed,
   coverage |-> coverageObj[1], screenshots |-> screenshots]

\* lines 289-296
Finish ==
  /\ pc = "loop"
  /\ i >= Len(tests)
  /\ IF Len(tests) = 0
     THEN /\ CatchOuter("No tests generated")
          /\ results' = results
     ELSE /\ status' = "completed"
          /\ results' = <<Summary>>
          /\ CallPush(CompletedEv(Summary), "done", "try")
  /\ UNCHANGED <<ctlVars, recTests, aiGeneration, logVars, crawlVars, genVars, execVars, runVars,
                 faults>>
  /\ UNCHANGED restVars
  /\ UNCHANGED stepErr

\* ------------------------------------------------------------ the registry

\* DELETE /api/run?runId=...: runStore.delete(runId), in another task
\* A DELETE that would also end the task of the run.
DeleteRunCancelsTask ==
  /\ pc \in AwaitPcs
  /\ inStore
  /\ inStore' = FALSE
  /\ pc' = "done"
  /\ UNCHANGED <<envDisableDynamic, config, rejected, pend, recVars, logVars, crawlVars,
                 genVars, execVars, runVars, faults>>
  /\ UNCHANGED restVars
  /\ UNCHANGED stepErr

DeleteRun ==
  /\ pc \in AwaitPcs
  /\ inStore
  /\ inStore' = FALSE
  /\ UNCHANGED <<envDisableDynamic, config, rejected, pc, pend, recVars, logVars, crawlVars,
                 genVars, execVars, runVars, faults>>
  /\ UNCHANGED restVars
  /\ UNCHANGED stepErr

\* ------------------------------------------- the event stream of a run (SSE)

waitInterval == 150
maxWait == 4000
MaxBeats == 1

Terminal(st) == st \in {"completed", "error"}

\* mapOrchestratorEvent: the stream's message for an event of the log
mapOrchestratorEvent(e) ==
  CASE e.type = "phase" ->
         [type |-> "phase", runId |-> e.runId, phase |-> e.phase, message |-> e.message]
    [] e.type = "test-progress" ->
         [type |-> "test", runId |-> e.runId, index |-> e.current, total |-> e.total,
          name |-> e.testName]
    [] e.type = "test-step" ->
         [type |-> "step", runId |-> e.runId, testId |-> e.testId, stepIndex |-> e.stepIndex,
          status |-> e.status, screenshot |-> e.screenshot]
    [] e.type = "error" ->
         [type |-> "error", runId |-> e.runId, message |-> e.error]
    [] e.type = "completed" ->
         [type |-> "completed", runId |-> e.runId, results |-> e.summary]
    [] OTHER -> [type |-> "unknown", runId |-> e.runId]

\* mapTerminalCompletion: the message sent when the poll finds the run terminal
mapTerminalCompletion(st, res) ==
  IF res # <<>> THEN [type |-> "completed", runId |-> RunId, results |-> res[1]]
  ELSE [type |-> (IF st = "error" THEN "error" ELSE "completed"), runId |-> RunId]

NotFoundMsg == [type |-> "error", runId |-> RunId, message |-> "Run not found"]
HeartbeatMsg == [type |-> "heartbeat", runId |-> RunId]

MapLog(log) == [k \in 1..Len(log) |-> mapOrchestratorEvent(log[k])]

\* slice(lastLen + 1): the poll skips the first new event
NewEventsSkipOne(log, from) == SubSeq(log, from + 2, Len(log))

\* r.events.slice(lastLen)
NewEvents(log, from) == SubSeq(log, from + 1, Len(log))

\* replayAndStream(initial), up to the start of the poll timer
replayAndStream ==
  /\ delivered' = delivered \o MapLog(events)
  /\ waitedMs' = 0
  /\ IF Terminal(status)
     THEN spc' = "closed" /\ closedBy' = "terminal" /\ lastLen' = lastLen
     ELSE spc' = "poll" /\ closedBy' = closedBy /\ lastLen' = Len(events)

\* GET /api/.../stream?runId=...: start(controller)
Connect ==
  /\ pc \in AwaitPcs
  /\ spc = "none"
  /\ IF inStore
     THEN replayAndStream
     ELSE /\ spc' = "wait"
          /\ UNCHANGED <<waitedMs, lastLen, delivered, closedBy>>
  /\ UNCHANGED <<auxVars, orchVars, beats>>

\* the grace period's timer fires
WaitTick ==
  /\ pc \in AwaitPcs
  /\ spc = "wait"
  /\ IF inStore
     THEN replayAndStream
     ELSE IF waitedMs + waitInterval >= maxWait
          THEN /\ delivered' = Append(delivered, NotFoundMsg)
               /\ spc' = "closed"
               /\ closedBy' = "notfound"
               /\ waitedMs' = 0
               /\ lastLen' = lastLen
          ELSE /\ waitedMs' = waitedMs + waitInterval
               /\ UNCHANGED <<spc, lastLen, delivered, closedBy>>
  /\ UNCHANGED <<auxVars, orchVars, beats>>

\* the poll timer fires and finds the record
Poll ==
  /\ pc \in AwaitPcs
  /\ spc = "poll"
  /\ inStore
  /\ lastLen' = IF Len(events) > lastLen THEN Len(events) ELSE lastLen
  /\ LET sent == IF Len(events) > lastLen THEN MapLog(NewEvents(events, lastLen)) ELSE <<>>
     IN IF Terminal(status)
        THEN /\ delivered' = (delivered \o sent) \o <<mapTerminalCompletion(status, results)>>
             /\ spc' = "closed"
             /\ closedBy' = "terminal"
        ELSE /\ delivered' = delivered \o sent
             /\ UNCHANGED <<spc, closedBy>>
  /\ UNCHANGED <<auxVars, orchVars, waitedMs, beats>>

\* the poll timer fires, there is something to send and controller.enqueue
\* throws (the consumer has gone): send sets closed
PollEnqueueThrows ==
  /\ pc \in AwaitPcs
  /\ spc = "poll"
  /\ inStore
  /\ Len(events) > lastLen \/ Terminal(status)
  /\ spc' = "closed"
  /\ closedBy' = "enqueue"
  /\ UNCHANGED <<auxVars, orchVars, waitedMs, lastLen, delivered, beats>>

\* the heartbeat timer fires
Heartbeat ==
  /\ pc \in AwaitPcs
  /\ spc = "poll"
  /\ beats < MaxBeats
  /\ beats' = beats + 1
  /\ delivered' = Append(delivered, HeartbeatMsg)
  /\ UNCHANGED <<auxVars, orchVars, spc, waitedMs, lastLen, closedBy>>

\* req.signal's abort: the client disconnects
Abort ==
  /\ pc \in AwaitPcs
  /\ spc \in {"wait", "poll"}
  /\ spc' = "closed"
  /\ closedBy' = "abort"
  /\ waitedMs' = 0
  /\ UNCHANGED <<auxVars, orchVars, lastLen, delivered, beats>>

StreamNext == Connect \/ WaitTick \/ Poll \/ PollEnqueueThrows \/ Heartbeat \/ Abort

\* ------------------------------------------------------- the specification

\* The steps of the task startRun returns the promise of.
TaskNext(sites) ==
  \/ PushReturns \/ PushThrowsInTry \/ PushThrowsInStepTry \/ PushThrowsInStepCatch
  \/ PushThrowsInCatch \/ PushThrowsInDynTry \/ PushThrowsInStaticTry
  \/ CrawlDynamicDone(sites) \/ CrawlStaticDone(sites)
  \/ GenStart \/ Heuristics \/ DedupAndCoverage
  \/ Upload \/ Login \/ Smoke
  \/ ExecStart \/ LoopStep \/ CallRunTest
  \/ RunTestNoBrowser \/ RunTestGotoThrows \/ RunTestSetup
  \/ StepPasses \/ StepActionThrows \/ StepScreenshotThrows \/ StepCatch \/ AfterStepEnd
  \/ TestReturns \/ TestCloseThrows \/ LoopNext \/ Finish

OrchNext(configs, sites) ==
  \/ \E cfg \in configs : StartRun(cfg)
  \/ TaskNext(sites)
  \/ DeleteRun

\* The steps of the optional AI provider (config.aiGenerated).
AiNext == AiReturns \/ AiThrows \/ PushThrowsInAiTry

\* One run, every configuration, no subscriber.
Next == OrchNext(Configs, Sites) \/ AiNext

Spec == Init /\ [][Next]_vars

\* One run of a small configuration, without the AI provider, and one
\* subscriber of its event stream.
StreamConfigs ==
  [url : {StartUrl}, dynamic : BOOLEAN, aiGenerated : {FALSE}, credentials : {FALSE},
   assets : {<<>>}]
StreamSites == {<<BlankPage>>, <<UploadPage>>}

NextStream == OrchNext(StreamConfigs, StreamSites) \/ StreamNext

SpecStream == Init /\ [][NextStream]_vars

\* The event loop keeps running: the continuations of the task are taken, and
\* the timers set with setInterval fire for as long as they are not cleared.
\* Nothing makes a client connect, abort or delete the run, nothing makes a run
\* start, and a broken consumer is not a must.
SpecStreamFair ==
  /\ SpecStream
  /\ WF_vars(TaskNext(StreamSites))
  /\ WF_vars(WaitTick)
  /\ WF_vars(Poll)

\* ------------------------------------------- functions applied on their own

\* Strings are sequences of pieces: the two prefixes assert-url knows, a blank,
\* and pieces of a URL.
MaxExpectedLen == 3
MaxUrlLen == 2
ContainsPrefix == <<"contains:">>
NotPrefix == <<"not:">>
Blank == " "
UrlPieces == {StartUrl, "/b"}
ExpectedPieces == {"contains:", "not:", Blank} \cup UrlPieces

RECURSIVE TrimStart(_)
TrimStart(s) == IF s # <<>> /\ Head(s) = Blank THEN TrimStart(Tail(s)) ELSE s

RECURSIVE TrimEnd(_)
TrimEnd(s) ==
  IF s # <<>> /\ s[Len(s)] = Blank THEN TrimEnd(SubSeq(s, 1, Len(s) - 1)) ELSE s

\* String.prototype.trim
Trim(s) == TrimEnd(TrimStart(s))

\* s.slice(n)
SliceFrom(s, n) == SubSeq(s, n + 1, Len(s))

\* s.includes(needle)
Includes(s, needle) ==
  \E k \in 0..(Len(s) - Len(needle)) : SubSeq(s, k + 1, k + Len(needle)) = needle

Passes == [ok |-> TRUE]
Throws(message) == [ok |-> FALSE, error |-> message]

\* assert-url with the 'not:' form failing whenever the URL contains the value.
assertUrlNotContains(url, rawExpected) ==
  LET expected == Trim(rawExpected)
  IN IF IsPrefix(ContainsPrefix, expected)
     THEN IF Includes(url, SliceFrom(expected, 1)) THEN Passes
          ELSE Throws(<<"URL does not contain '">> \o SliceFrom(expected, 1) \o <<"': ">> \o url)
     ELSE IF IsPrefix(NotPrefix, expected)
     THEN IF Includes(url, SliceFrom(expected, 1))
          THEN Throws(<<"URL should have changed from ">> \o SliceFrom(expected, 1))
          ELSE Passes
     ELSE IF expected # <<>> /\ url # expected
     THEN Throws(<<"URL mismatch. Expected ">> \o expected \o <<", got ">> \o url)
     ELSE Passes

\* performStep, case 'assert-url' (runner lines 133-146): url is ctx.url()
assertUrl(url, rawExpected) ==
  LET expected == Trim(rawExpected)
  IN IF IsPrefix(ContainsPrefix, expected)
     THEN LET needle == SliceFrom(expected, Len(ContainsPrefix))
          IN IF ~Includes(url, needle)
             THEN Throws(<<"URL does not contain '">> \o needle \o <<"': ">> \o url)
             ELSE Passes
     ELSE IF IsPrefix(NotPrefix, expected)
     THEN LET not == SliceFrom(expected, Len(NotPrefix))
          IN IF url = not
             THEN Throws(<<"URL should have changed from ">> \o not)
             ELSE Passes
     ELSE IF expected # <<>>
     THEN IF url # expected
          THEN Throws(<<"URL mismatch. Expected ">> \o expected \o <<", got ">> \o url)
          ELSE Passes
     ELSE Passes

AssertUrlInputs ==
  [fn : {"assert-url"},
   url : UNION {[1..n -> UrlPieces] : n \in 1..MaxUrlLen},
   expected : UNION {[1..n -> ExpectedPieces] : n \in 0..MaxExpectedLen}]

\* The elements a generated page is built from, before ids are given.
MaxElems == 3
UsernameInput == Elem("", "input", "text", "username", "")
PasswordInput == Elem("", "input", "password", "password", "")
SubmitButton == Elem("", "button", "", "", "Submit")
ElemKinds ==
  {UsernameInput, PasswordInput, SubmitButton,
   [Elem("", "input", "email", "email", "") EXCEPT !.required = TRUE],
   Elem("", "input", "checkbox", "agree", ""),
   Elem("", "select", "", "country", ""),
   Elem("", "a", "", "", "Next"),
   Elem("", "button", "", "", "Open"),
   Elem("", "a", "", "", "Close")}

\* The crawler gives the elements of a page distinct ids, in document order.
ElemIdAt == <<"e1", "e2", "e3", "e4", "e5", "e6", "e7", "e8">>
WithIds(kinds) == [k \in 1..Len(kinds) |-> [kinds[k] EXCEPT !.id = ElemIdAt[k]]]

GenPages ==
  {Page(id, StartUrl, "Home", WithIds(kinds)) :
     id \in {"p1", "p2"}, kinds \in UNION {[1..n -> ElemKinds] : n \in 0..MaxElems}}

GenerateInputs == [fn : {"generateTests"}, page : GenPages]

\* The tests the deduplication is applied to: navigation tests of two pages, two
\* of them aiming at the same element, and tests that are not navigation tests.
MaxTests == 4
NavTestOf(pageId, target) ==
  [id |-> <<"nav", pageId, target>>, name |-> <<"Navigate via", "a", target>>,
   pageModelId |-> pageId, negative |-> FALSE, tags |-> {"heuristic", "nav"},
   steps |-> <<Step("click", target, Undef, Undef),
               Step("assert-url", Undef, Undef, "not:" \o StartUrl)>>]
TestKinds ==
  {NavTestOf("p1", "e1"), NavTestOf("p2", "e1"), NavTestOf("p1", "e2"),
   [NavTestOf("p1", "e1") EXCEPT !.id = <<"happy", "p1">>, !.tags = {"heuristic", "form"}],
   [NavTestOf("p1", "e1") EXCEPT !.id = <<"ai", 1>>, !.tags = {"ai", "nav"}]}

DedupInputs == [fn : {"dedup"}, tests : UNION {[1..n -> TestKinds] : n \in 0..MaxTests}]

\* ---- a DOM element turned into a PageElement (crawler lines 56-84, 192-205)

\* Texts on either side of the 60-character limit of the text candidate.
Text59 == "xxxxxxxxxxxxxxxxxxxxxxxxxxxxxxxxxxxxxxxxxxxxxxxxxxxxxxxxxxx"
Text60 == "yyyyyyyyyyyyyyyyyyyyyyyyyyyyyyyyyyyyyyyyyyyyyyyyyyyyyyyyyyyy"

\* The elements of a document as the parser or the browser hands them over: the
\* attributes the crawler reads ("" for an attribute that is not there) and the
\* text content.
DomElement(tag, idAttr, nameAttr, placeholder, ariaLabel, value, textContent) ==
  [tag |-> tag, idAttr |-> idAttr, nameAttr |-> nameAttr, placeholder |-> placeholder,
   ariaLabel |-> ariaLabel, value |-> value, textContent |-> textContent]

DomElements ==
  {DomElement(tag, ia, na, ph, al, va, tc) :
     tag \in {"input", "button"}, ia \in {"", "user"}, na \in {"", "username"},
     ph \in {"", "Your name"}, al \in {"", "User name"}, va \in {"", "Go"},
     tc \in {"", Text59, Text60}}

\* The text of the element: $(el).text().trim() || attribs['value'] (static,
\* line 62); in the browser the value or placeholder of an input, the text
\* content of anything else (lines 171-176), then el.text || attribs['value']
\* (line 194).
TextOf(strategy, el) ==
  LET inPage == IF el.tag \in {"input", "textarea"}
                THEN (IF el.value # "" THEN el.value ELSE el.placeholder)
                ELSE el.textContent
      text == IF strategy = "static" THEN el.textContent ELSE inPage
  IN IF text # "" THEN text ELSE el.value

\* A text candidate for every text of up to 60 characters.
TextIsShortOrSixty(text) == text # "" /\ Len(text) <= 60

\* text && text.length < 60
TextIsShort(text) == text # "" /\ Len(text) < 60

\* lines 64-69 and 196-201: the candidates are pushed in this order
locatorCandidatesOf(el, text) ==
  (IF el.idAttr # "" THEN <<<<"#", el.idAttr>>>> ELSE <<>>)
  \o (IF el.nameAttr # "" THEN <<<<"name", el.nameAttr>>>> ELSE <<>>)
  \o (IF el.placeholder # "" THEN <<<<"placeholder", el.placeholder>>>> ELSE <<>>)
  \o (IF el.ariaLabel # "" THEN <<<<"aria-label", el.ariaLabel>>>> ELSE <<>>)
  \o (IF TextIsShort(text) THEN <<<<"text", text>>>> ELSE <<>>)

\* The PageElements of a document: each gets a fresh nanoid, its text and its
\* locator candidates.
CollectElements(strategy, dom) ==
  [k \in 1..Len(dom) |->
     [id |-> ElemIdAt[k], tag |-> dom[k].tag, text |-> TextOf(strategy, dom[k]),
      attributes |-> dom[k],
      locatorCandidates |-> locatorCandidatesOf(dom[k], TextOf(strategy, dom[k]))]]

\* Documents of one element, and of the same element twice.
CollectInputs ==
  [fn : {"collect"}, strategy : {"static", "dynamic"},
   dom : {<<e>> : e \in DomElements} \cup {<<e, e>> : e \in DomElements}]

\* The elements of a fetched page are collected.
Collect ==
  /\ fnIn.fn = "collect"
  /\ fnOut = <<>>
  /\ fnOut' = <<CollectElements(fnIn.strategy, fnIn.dom)>>
  /\ UNCHANGED <<fnIn, orchVars, subVars, runsVars, bfsVars>>


\* ---- the AI providers ----

\* What the provider's endpoint does with the request: the request is rejected
\* by the network, the response status is not OK, the body is not JSON, the
\* model's answer holds no braces, the text between the braces does not parse,
\* the parsed object holds no array of tests, or it holds a list of tests.
ProviderOutcomes ==
  {"rejected", "notOk", "bodyNotJson", "noBraces", "badJson", "noTests", "tests"}

ProviderFailures == ProviderOutcomes \ {"tests"}

AiThrew(message) == [threw |-> TRUE, message |-> message, tests |-> <<>>]

AiReturned(ts) == [threw |-> FALSE, message |-> "", tests |-> ts]

\* GroqProvider.generateTests: the fetch is awaited outside any try block.
groqGenerateTests(apiKey, outcome) ==
  IF ~apiKey THEN AiReturned(<<>>)
  ELSE IF outcome = "rejected" THEN AiThrew("fetch failed")
  ELSE IF outcome = "notOk" THEN AiReturned(<<>>)
  \* res.json().catch(() => ({})): no content, extractJson gives null
  ELSE IF outcome \in {"bodyNotJson", "noBraces"} THEN AiReturned(<<>>)
  ELSE IF outcome = "badJson" THEN AiReturned(<<>>)
  ELSE IF outcome = "noTests" THEN AiReturned(<<>>)
  ELSE AiReturned(<<AiNegativeTest>>)

\* OllamaProvider.generateTests: fetch and parsing sit in one try block whose
\* catch returns the empty list.
ollamaGenerateTests(outcome) ==
  IF outcome \in {"rejected", "bodyNotJson"} THEN AiReturned(<<>>)
  ELSE IF outcome = "notOk" THEN AiReturned(<<>>)
  ELSE IF outcome \in {"noBraces", "badJson", "noTests"} THEN AiReturned(<<>>)
  ELSE AiReturned(<<AiNegativeTest>>)

\* NoAiProvider.generateTests
noAiGenerateTests == AiReturned(<<>>)

providerGenerateTests(provider, apiKey, outcome) ==
  CASE provider = "groq" -> groqGenerateTests(apiKey, outcome)
    [] provider = "ollama" -> ollamaGenerateTests(outcome)
    [] OTHER -> noAiGenerateTests

AiProviderInputs ==
  [fn : {"aiGenerateTests"}, provider : {"groq", "ollama", "none"}, apiKey : BOOLEAN,
   outcome : ProviderOutcomes]

\* generateTests of one provider is awaited.
AiGenerateTests ==
  /\ fnIn.fn = "aiGenerateTests"
  /\ fnOut = <<>>
  /\ fnOut' = <<providerGenerateTests(fnIn.provider, fnIn.apiKey, fnIn.outcome)>>
  /\ UNCHANGED <<fnIn, orchVars, subVars, runsVars, bfsVars>>


\* ---- the runner's locator of an element ----

MaxCandidates == 2

\* A locator candidate is the pair of its leading form and its value, as
\* locatorCandidatesOf writes them: "#" for '#id', "name" for '[name="..."]',
\* "text" for 'text=...'; "xpath" stands for a candidate of no form the runner
\* knows.
CandidatePool == {<<"#", "login">>, <<"name", "user">>, <<"text", "Sign in">>, <<"xpath", "//a">>}

StartsWithText(c) == c[1] = "text"
StartsWithHashOrBracket(c) == c[1] \in {"#", "name", "placeholder", "aria-label"}

GetByTextExact(txt) == [by |-> "getByText", arg |-> txt, exact |-> TRUE]
Locator(c) == [by |-> "locator", arg |-> c[2], exact |-> FALSE]
GetByLabel(l) == [by |-> "getByLabel", arg |-> l, exact |-> FALSE]
GetByRole(r) == [by |-> "getByRole", arg |-> r, exact |-> FALSE]
GetByText(t) == [by |-> "getByText", arg |-> t, exact |-> FALSE]

NoValidLocator == [by |-> "throw", arg |-> "No valid locator", exact |-> FALSE]

RECURSIVE FirstKnownCandidate(_, _)
\* the for loop of locatorFor from the candidate at position k on
FirstKnownCandidate(cs, k) ==
  IF k > Len(cs) THEN <<>>
  ELSE IF StartsWithText(cs[k]) THEN <<GetByTextExact(cs[k][2])>>
  ELSE IF StartsWithHashOrBracket(cs[k]) THEN <<Locator(cs[k])>>
  ELSE FirstKnownCandidate(cs, k + 1)

\* locatorFor(page, el): the page is not asked whether a locator resolves.
locatorFor(page, el) ==
  LET known == FirstKnownCandidate(el.locatorCandidates, 1)
  IN IF known # <<>> THEN known[1]
     ELSE IF el.ariaLabel # "" THEN GetByLabel(el.ariaLabel)
     ELSE IF el.role # "" THEN GetByRole(el.role)
     ELSE IF el.text # "" THEN GetByText(el.text)
     ELSE NoValidLocator

LocatedElements ==
  [locatorCandidates : SeqsUpTo(CandidatePool, MaxCandidates), ariaLabel : {"", "Login"},
   role : {"", "button"}, text : {"", "Sign in"}]

\* Every locator the runner can build for some element.
AllLocators ==
  {Locator(c) : c \in {c \in CandidatePool : StartsWithHashOrBracket(c)}}
    \cup {GetByTextExact("Sign in"), GetByLabel("Login"), GetByRole("button"), GetByText("Sign in")}

\* The page is the set of the locators that resolve to an element in it.
LocatorInputs == [fn : {"locatorFor"}, el : LocatedElements, page : SUBSET AllLocators]

\* locatorFor is called for the target element of a step.
LocatorFor ==
  /\ fnIn.fn = "locatorFor"
  /\ fnOut = <<>>
  /\ fnOut' = <<locatorFor(fnIn.page, fnIn.el)>>
  /\ UNCHANGED <<fnIn, orchVars, subVars, runsVars, bfsVars>>


\* ---- which elements the two crawl strategies take ----

\* An element matched by 'a, button, input, select, textarea': its type and
\* aria-hidden attributes ("" when absent), whether an ancestor carries
\* aria-hidden="true", whether it is disabled, and whether the browser renders it
\* (display, visibility, opacity, a box of non-zero size).
Candidates ==
  [tag : {"a", "button", "input"}, typeAttr : {"", "hidden"}, ariaHidden : {"", "true"},
   ancestorAriaHidden : BOOLEAN, disabled : BOOLEAN, visible : BOOLEAN]

\* crawlStatic, lines 60-61: the two returns of the each callback
includeStatic(el) ==
  IF el.typeAttr = "hidden" THEN FALSE
  ELSE IF el.ariaHidden = "true" THEN FALSE
  ELSE TRUE

\* el.closest('[aria-hidden="true"]'): the element itself or an ancestor
ClosestAriaHidden(el) == el.ariaHidden = "true" \/ el.ancestorAriaHidden

\* crawlDynamic, include(el) of collectFrom
includeDynamic(el) ==
  IF el.tag \notin {"a", "button", "input", "select", "textarea"} THEN FALSE
  ELSE IF el.tag = "input" /\ el.typeAttr = "hidden" THEN FALSE
  ELSE IF el.tag = "input" /\ el.disabled THEN FALSE
  ELSE IF ClosestAriaHidden(el) THEN FALSE
  ELSE el.visible

IncludeInputs == [fn : {"include"}, el : Candidates]

\* Both strategies meet the same element.
Include ==
  /\ fnIn.fn = "include"
  /\ fnOut = <<>>
  /\ fnOut' = <<[static |-> includeStatic(fnIn.el), dynamic |-> includeDynamic(fnIn.el)]>>
  /\ UNCHANGED <<fnIn, orchVars, subVars, runsVars, bfsVars>>


\* Pages of links and buttons, more of them than generateTests makes navigation
\* tests for.
MaxNavElems == 6
NavKinds ==
  {Elem("", "a", "", "", "Close"), Elem("", "button", "", "", "Go"),
   Elem("", "button", "", "", "Open")}
NavPages ==
  {Page("p1", StartUrl, "Home", WithIds(kinds)) :
     kinds \in UNION {[1..n -> NavKinds] : n \in (MaxNavElems - 1)..MaxNavElems}}
NavInputs == [fn : {"generateTests"}, page : NavPages]


\* Pages of form controls around a submit button, more of them than the form
\* tests fill, inside the form "f1", inside another form, or inside none.
MaxFormElems == 5
InForm(e, formId) == [e EXCEPT !.containerFormId = formId]
FormKinds ==
  {InForm(UsernameInput, "f1"), InForm(PasswordInput, "f1"),
   InForm(Elem("", "input", "text", "city", ""), "f1"),
   InForm([Elem("", "input", "text", "street", "") EXCEPT !.required = TRUE], "f2"),
   InForm(SubmitButton, "f1"), SubmitButton}
FormPages ==
  {Page("p1", StartUrl, "Home", WithIds(kinds)) :
     kinds \in UNION {[1..n -> FormKinds] : n \in (MaxFormElems - 1)..MaxFormElems}}
FormInputs == [fn : {"generateTests"}, page : FormPages]


\* ---- the synthetic login test ----

\* Pages a login test is asked for: a user field, password fields (one of them
\* named like WordPress's user_pass), a login button, a button that is none.
MaxLoginElems == 3
LoginKinds ==
  {UsernameInput, PasswordInput, Elem("", "input", "password", "user_pass", ""),
   Elem("", "input", "checkbox", "remember", ""),
   Elem("", "button", "", "", "Login"), Elem("", "button", "", "", "Open")}
LoginPages ==
  {Page("p1", StartUrl, "Sign in", WithIds(kinds)) :
     kinds \in UNION {[1..n -> LoginKinds] : n \in 0..MaxLoginElems}}
LoginInputs == [fn : {"createLoginTest"}, page : LoginPages]

\* createLoginTest(loginPage, config.credentials) is called.
CreateLoginTest ==
  /\ fnIn.fn = "createLoginTest"
  /\ fnOut = <<>>
  /\ fnOut' = <<createLoginTest(fnIn.page)>>
  /\ UNCHANGED <<fnIn, orchVars, subVars, runsVars, bfsVars>>


\* ---- the synthetic upload tests ----

MaxAssets == 2
PdfAsset == [id |-> "a2", kind |-> "pdf", mime |-> "application/pdf", path |-> "uploads/a2.pdf"]
VideoAsset == [id |-> "a3", kind |-> "video", mime |-> "video/mp4", path |-> "uploads/a3.mp4"]
Accepts == {"", "image/*", "application/pdf", ".mp4", "image/*,.pdf", "text/plain"}

\* One page with one file input, and the assets the caller uploaded (at least
\* one: the upload tests are made only for a non-empty list).
UploadInputs ==
  [fn : {"uploadTests"}, accept : Accepts,
   assets : UNION {[1..n -> {ImageAsset, PdfAsset, VideoAsset}] : n \in 1..MaxAssets}]

FileInputPage(accept) ==
  Page("p1", StartUrl, "Home",
       <<[Elem("e1", "input", "file", "doc", "") EXCEPT !.accept = accept]>>)

\* The loop over the pages' file inputs runs for the page.
MakeUploadTests ==
  /\ fnIn.fn = "uploadTests"
  /\ fnOut = <<>>
  /\ fnOut' = <<UploadTests(<<FileInputPage(fnIn.accept)>>, fnIn.assets)>>
  /\ UNCHANGED <<fnIn, orchVars, subVars, runsVars, bfsVars>>

FnInputs == AssertUrlInputs \cup GenerateInputs \cup DedupInputs \cup CollectInputs \cup AiProviderInputs \cup LocatorInputs \cup IncludeInputs \cup NavInputs \cup FormInputs \cup LoginInputs \cup UploadInputs

\* The deduplication of the generate phase is applied to a list of tests.
DedupTests ==
  /\ fnIn.fn = "dedup"
  /\ fnOut = <<>>
  /\ fnOut' = <<Dedup(fnIn.tests)>>
  /\ UNCHANGED <<fnIn, orchVars, subVars, runsVars, bfsVars>>

\* generateTests(page, requirements) is called on a page model.
GenerateTests ==
  /\ fnIn.fn = "generateTests"
  /\ fnOut = <<>>
  /\ fnOut' = <<generateTests(fnIn.page)>>
  /\ UNCHANGED <<fnIn, orchVars, subVars, runsVars, bfsVars>>

\* An assert-url step is performed on a page whose URL is fnIn.url.
AssertUrl ==
  /\ fnIn.fn = "assert-url"
  /\ fnOut = <<>>
  /\ fnOut' = <<assertUrl(fnIn.url, fnIn.expected)>>
  /\ UNCHANGED <<fnIn, orchVars, subVars, runsVars, bfsVars>>

InitFn ==
  /\ InitRun
  /\ InitRuns
  /\ InitNoCrawl
  /\ fnIn \in FnInputs
  /\ fnOut = <<>>

NextFn == AssertUrl \/ GenerateTests \/ DedupTests \/ Collect \/ AiGenerateTests \/ LocatorFor \/ Include \/ CreateLoginTest \/ MakeUploadTests

SpecFn == InitFn /\ [][NextFn]_vars

\* ------------------------------------------------------ several runs at once

\* An event of run r: every event startRun builds carries its runId parameter.
EvOf(r, type) == [type |-> type, runId |-> r]

\* A push that writes to whichever record the registry holds.
RecordOfRegistered(r) == IF store # {} THEN CHOOSE x \in store : TRUE ELSE r

\* The record the closures of run r's startRun call write to: the object created
\* at line 65, held in the local constant 'record'.
RecordOf(r) == r

\* push of run r (line 67): record.events.push(e)
PushOf(r, type) ==
  [recs EXCEPT ![RecordOf(r)].events = Append(@, EvOf(r, type))]

\* What run r's task leaves alone.
TaskFrame == UNCHANGED <<store, seen, orchVars, subVars, fnVars, bfsVars>>

\* POST: startRun is called with a fresh nanoid (route.ts lines 34-46; lines 65-66).
StartRunOf(r) ==
  /\ tpc[r] = "idle"
  /\ recs' = [recs EXCEPT ![r] = [status |-> "running", events |-> <<>>, tests |-> <<>>,
                                   results |-> <<>>]]
  /\ store' = store \cup {r}
  /\ tpc' = [tpc EXCEPT ![r] = "crawl"]
  /\ UNCHANGED <<seen, orchVars, subVars, fnVars, bfsVars>>

\* lines 70-93: the crawl phase is announced and the crawl returns
CrawlOf(r) ==
  /\ tpc[r] = "crawl"
  /\ recs' = PushOf(r, "phase")
  /\ tpc' = [tpc EXCEPT ![r] = "generate"]
  /\ TaskFrame

\* lines 94-249: tests are generated and stored in the record
GenerateOf(r) ==
  /\ tpc[r] = "generate"
  /\ recs' = [PushOf(r, "phase") EXCEPT ![RecordOf(r)].tests = <<[id |-> "smoke", run |-> r]>>]
  /\ tpc' = [tpc EXCEPT ![r] = "execute"]
  /\ TaskFrame

\* lines 250-288: a test is run and its progress logged
ExecuteOf(r) ==
  /\ tpc[r] = "execute"
  /\ recs' = PushOf(r, "test-progress")
  /\ tpc' = [tpc EXCEPT ![r] = "finish"]
  /\ TaskFrame

\* lines 292-296: status completed, the summary, the completed event
FinishOf(r) ==
  /\ tpc[r] = "finish"
  /\ recs' = [PushOf(r, "completed") EXCEPT ![RecordOf(r)].status = "completed",
                                             ![RecordOf(r)].results = <<[run |-> r]>>]
  /\ tpc' = [tpc EXCEPT ![r] = "done"]
  /\ TaskFrame

\* lines 297-301: anything thrown in the try block
CatchOf(r) ==
  /\ tpc[r] \in {"crawl", "generate", "execute", "finish"}
  /\ recs' = [PushOf(r, "error") EXCEPT ![RecordOf(r)].status = "error"]
  /\ tpc' = [tpc EXCEPT ![r] = "done"]
  /\ TaskFrame

\* The steps of run r's task.
TaskOf(r) ==
  CrawlOf(r) \/ GenerateOf(r) \/ ExecuteOf(r) \/ FinishOf(r) \/ CatchOf(r)

\* DELETE /api/test/start?runId=r (route.ts lines 187-202)
DeleteOf(r) ==
  /\ r \in store
  /\ store' = store \ {r}
  /\ UNCHANGED <<recs, tpc, seen, orchVars, subVars, fnVars, bfsVars>>

\* GET with a runId (route.ts lines 141-170): the record is looked up and read
ReadOf(r) ==
  /\ seen' = IF r \in store
             THEN <<[runId |-> r, found |-> TRUE, status |-> recs[r].status,
                     events |-> Len(recs[r].events)]>>
             ELSE <<[runId |-> r, found |-> FALSE]>>
  /\ seen' # seen
  /\ UNCHANGED <<store, recs, tpc, orchVars, subVars, fnVars, bfsVars>>

NextRuns ==
  \E r \in RunIds : StartRunOf(r) \/ TaskOf(r) \/ DeleteOf(r) \/ ReadOf(r)

InitSeveral ==
  /\ InitRun
  /\ InitNoFn
  /\ InitRuns
  /\ InitNoCrawl

SpecRuns == InitSeveral /\ [][NextRuns]_vars

\* ------------------------------------------------- the crawl, link by link

MaxMaxPages == 3
MaxDepth == 2

\* A URL or an href: scheme, origin ("" in a relative href), path ("" when
\* there is none), fragment ("" when there is none).
Url(origin, path, hash) ==
  [scheme |-> "https:", origin |-> origin, path |-> path, hash |-> hash]
Mailto == [scheme |-> "mailto:", origin |-> "", path |-> "a@x", hash |-> ""]

\* new URL(href, baseUrl): a relative href takes the origin of the base, and the
\* path of the base if it has none; an empty path is '/'.
Resolve(href, base) ==
  LET path == IF href.path # "" THEN href.path
              ELSE IF href.origin = "" /\ base.path # "" THEN base.path
              ELSE "/"
  IN [href EXCEPT !.origin = IF href.origin = "" THEN base.origin ELSE href.origin,
                  !.path = path]

\* normalizeUrl (crawler lines 252-263): <<url>> or <<>> for null
normalizeUrl(href, base) ==
  IF href.scheme \in {"http:", "https:"}
  THEN <<[Resolve(href, base) EXCEPT !.hash = ""]>>
  ELSE <<>>

\* What a fetch of the URL asks the server for: the fragment is not sent.
Resource(url) == [Resolve(url, url) EXCEPT !.hash = ""]

Resources == {Url("x", "/", ""), Url("x", "/b", ""), Url("y", "/", "")}

\* The a[href] of a page, in document order.
LinkLists ==
  {<<>>,
   <<Url("x", "/", "top"), Url("", "/b", "")>>,
   <<Url("y", "/", ""), Url("x", "/b", "")>>,
   <<Mailto, Url("x", "", "")>>,
   <<Url("x", "/b", "sec"), Url("x", "/b", ""), Url("y", "/", "")>>}

StartUrls == {Url("x", "", ""), Url("x", "/", ""), Url("x", "/", "top")}

CrawlInputs ==
  [startUrl : StartUrls, maxPages : 1..MaxMaxPages, depth : 0..MaxDepth, sameOrigin : BOOLEAN,
   links : [Resources -> LinkLists],
   down : {d \in SUBSET Resources : Cardinality(d) <= 1}]

\* The hrefs of the page a fetch of the URL returns; a page outside the web
\* crawled has none.
HrefsOf(url) ==
  IF Resource(url) \in DOMAIN crawlIn.links THEN crawlIn.links[Resource(url)] ELSE <<>>

\* A depth check that lets one more level through.
DepthAllowsOneMore(d) == d <= crawlIn.depth

\* if (d < depth) (line 89)
DepthAllows(d) == d < crawlIn.depth

\* A queueing of links that does not look at visited or at the queue.
RECURSIVE EnqueueLinksUnchecked(_, _, _, _)
EnqueueLinksUnchecked(queue, visited, hrefs, item) ==
  IF hrefs = <<>> THEN queue
  ELSE LET next == normalizeUrl(Head(hrefs), item.url)
           skip == \/ next = <<>>
                   \/ crawlIn.sameOrigin /\ next[1].origin # crawlIn.startUrl.origin
       IN EnqueueLinksUnchecked(IF skip THEN queue
                                ELSE Append(queue, [url |-> next[1], depth |-> item.depth + 1,
                                                    via |-> <<item.url>>]),
                                visited, Tail(hrefs), item)

\* lines 91-97: the hrefs of a page are normalized, filtered and queued
RECURSIVE EnqueueLinks(_, _, _, _)
EnqueueLinks(queue, visited, hrefs, item) ==
  IF hrefs = <<>> THEN queue
  ELSE LET next == normalizeUrl(Head(hrefs), item.url)
           skip == \/ next = <<>>
                   \/ crawlIn.sameOrigin /\ next[1].origin # crawlIn.startUrl.origin
                   \/ next[1] \in visited
                   \/ \E k \in 1..Len(queue) : queue[k].url = next[1]
       IN EnqueueLinks(IF skip THEN queue
                       ELSE Append(queue, [url |-> next[1], depth |-> item.depth + 1,
                                           via |-> <<item.url>>]),
                       visited, Tail(hrefs), item)

\* lines 38-43 of crawlStatic, 108-124 of crawlDynamic: the start URL is queued as
\* it was given
InitCrawl ==
  /\ crawlIn \in CrawlInputs
  /\ bfs = [pc |-> "loop", queue |-> <<[url |-> crawlIn.startUrl, depth |-> 0, via |-> <<>>]>>,
            visited |-> {}, pages |-> <<>>, warnings |-> <<>>, fetched |-> <<>>]

\* One turn of the while loop (lines 45-102; 126-246 in crawlDynamic): a URL is
\* taken from the queue, fetched, and its page and links are recorded, or the
\* failure of the fetch is. pages holds, with each PageModel, the depth and the
\* page its queue item came from.
CrawlStep ==
  /\ bfs.pc = "loop"
  /\ bfs.queue # <<>>
  /\ Len(bfs.pages) < crawlIn.maxPages
  /\ LET item == Head(bfs.queue)
         rest == Tail(bfs.queue)
         visited == bfs.visited \cup {item.url}
     IN IF item.url \in bfs.visited
        THEN bfs' = [bfs EXCEPT !.queue = rest]
        ELSE IF Resource(item.url) \in crawlIn.down
        THEN bfs' = [bfs EXCEPT !.queue = rest, !.visited = visited,
                                !.fetched = Append(@, item.url),
                                !.warnings = Append(@, <<"Failed to fetch", item.url>>)]
        ELSE bfs' = [bfs EXCEPT !.queue = IF DepthAllows(item.depth)
                                          THEN EnqueueLinks(rest, visited, HrefsOf(item.url), item)
                                          ELSE rest,
                                !.visited = visited,
                                !.fetched = Append(@, item.url),
                                !.pages = Append(@, [url |-> item.url, d |-> item.depth,
                                                     via |-> item.via])]
  /\ UNCHANGED <<crawlIn, orchVars, subVars, fnVars, runsVars>>

\* The loop ends (line 45) and the result is returned (line 104).
CrawlReturn ==
  /\ bfs.pc = "loop"
  /\ ~(bfs.queue # <<>> /\ Len(bfs.pages) < crawlIn.maxPages)
  /\ bfs' = [bfs EXCEPT !.pc = "done"]
  /\ UNCHANGED <<crawlIn, orchVars, subVars, fnVars, runsVars>>

InitOneCrawl ==
  /\ InitRun
  /\ InitNoFn
  /\ InitRuns
  /\ InitCrawl

NextCrawl == CrawlStep \/ CrawlReturn

SpecCrawl == InitOneCrawl /\ [][NextCrawl]_vars

\* The loop is one async function: every fetch it awaits resolves or rejects,
\* and the loop then goes on with its next turn.
SpecCrawlFair ==
  /\ SpecCrawl
  /\ WF_vars(NextCrawl)

\* --------------------------------------------------------------- properties

IsTerminalEv(e) == e.type \in {"completed", "error"}
TerminalIdx == {k \in 1..Len(events) : IsTerminalEv(events[k])}
Stopped == pc = "done"
\* The catch of startRun has caught an exception of emit.
EmitThrew ==
  \/ \E k \in 1..Len(events) : events[k] = ErrorEv("emit threw")
  \/ pc = "push" /\ pend.e = ErrorEv("emit threw")

\* C1: the status of a run's record only moves running -> completed or
\* running -> error, and once it is completed or error no step changes it.
C1_StatusMovesForwardOnly ==
  [][/\ status = "absent" => status' \in {"absent", "running"}
     /\ status = "running" => status' \in {"running", "completed", "error"}
     /\ Terminal(status) => status' = status]_vars

\* C2: a run that has stopped has exactly one terminal event in its log, it is
\* the last event and has the type of the record's status; wherever another
\* task can read the record, a terminal status has its event in the log.
C2_OneTerminalEventLast ==
  /\ Stopped =>
       /\ Cardinality(TerminalIdx) = 1
       /\ IsTerminalEv(events[Len(events)])
       /\ events[Len(events)].type = status
       /\ status = "completed" => events[Len(events)].summary = results[1]
  /\ (pc \in AwaitPcs /\ Terminal(status)) =>
       \E k \in 1..Len(events) : events[k].type = status

\* C3: every event is in the log, as its last entry, when emit is called with
\* it; emit is called once per event in the order of appending; and no step
\* removes, replaces or reorders an event of the log.
C3_LogAppendOnlyEmitInOrder ==
  /\ [](/\ Len(emitted) = Len(events)
        /\ \A k \in 1..Len(emitted) :
             /\ emitted[k].e = events[k]
             /\ emitted[k].seen = k
             /\ emitted[k].last)
  /\ [][IsPrefix(events, events')]_vars

\* an emit that threw in the middle of a run kept in the registry
C3_Witness ==
  /\ inStore
  /\ Len(events) >= 6
  /\ \E k \in 1..(Len(events) - 1) : events[k].type = "test-step"
  /\ EmitThrew

\* The messages of the stream that carry an event of the log.
Carried == SelectSeq(delivered, LAMBDA m : m.type # "heartbeat")

\* C4: what a stream has delivered of the log is a prefix of the log, in log
\* order from index 0 and with no event skipped; a stream closed because the
\* run is completed or in error has delivered the whole log, followed at most
\* by one repeated terminal message. (A stream that found no record within
\* the grace period has delivered its own 'Run not found' message and nothing
\* of the log.)
C4_StreamDeliversLogPrefix ==
  LET whole == MapLog(events)
      again == mapTerminalCompletion(status, results)
  IN /\ \/ IsPrefix(Carried, whole)
        \/ closedBy = "terminal" /\ Carried = Append(whole, again)
        \/ closedBy = "notfound" /\ Carried = <<NotFoundMsg>>
     /\ closedBy = "terminal" =>
          /\ Terminal(status)
          /\ Carried = whole \/ Carried = Append(whole, again)

\* a stream opened in the middle of a run, polled over a heartbeat, and closed
\* by the poll that found the run completed
C4_Witness ==
  /\ closedBy = "terminal"
  /\ status = "completed"
  /\ Len(Carried) = Len(events) + 1
  /\ \E p \in 2..(Len(delivered) - 2) :
       /\ delivered[p].type = "heartbeat"
       /\ delivered[p + 1].type = "step"

DynamicFailed ==
  \E k \in 1..Len(attempts) : attempts[k].strategy = "dynamic" /\ attempts[k].got # "pages"
StaticAttempted == \E k \in 1..Len(attempts) : attempts[k].strategy = "static"

\* C5: when the dynamic crawl of the start URL has failed (thrown, or obtained
\* no page), a static crawl has been attempted before the run is in error, and
\* the warnings of the crawl result in use mention the fallback. (Runs ended
\* by a throwing emit are left aside.)
C5_DynamicFailureFallsBackToStatic ==
  (status = "error" /\ ~EmitThrew /\ DynamicFailed) =>
     /\ StaticAttempted
     /\ crawlResult # <<>> => FallbackWarning \in Range(crawlResult[1].warnings)

AllStrategiesFailed ==
  /\ StaticAttempted
  /\ \A k \in 1..Len(attempts) : attempts[k].got # "pages"

CompoundMessages == {"Both dynamic and static crawl failed: " \o m : m \in {"Invalid URL"}}

\* C6: when every strategy tried, the static one among them, has failed to
\* obtain the start URL, the run has no pages and stops in status error, its
\* terminal error event carrying the compound 'Both dynamic and static crawl
\* failed: ...' message. (Runs ended by a throwing emit are left aside.)
C6_BothFailEndsWithCompoundError ==
  (Stopped /\ AllStrategiesFailed /\ ~EmitThrew) =>
     /\ crawlResult = <<>> \/ Pages = <<>>
     /\ status = "error"
     /\ \E k \in TerminalIdx : events[k].type = "error" /\ events[k].error \in CompoundMessages

Crawled == crawlResult # <<>>
TestsStarted == {k \in 1..Len(started) : started[k] > 0}

\* C7: with at least one page the execute phase has at least one test, and a
\* list left empty by the heuristics, the AI, the upload and the login
\* synthesis gets exactly the smoke test of the first page; with no page no
\* test is executed and the run stops in status error.
C7_SmokeTestOrError ==
  /\ (pc = "execStart" /\ Pages # <<>>) => Len(tests) >= 1
  /\ (Crawled /\ Pages = <<>>) =>
        /\ TestsStarted = {}
        /\ Stopped => status = "error"

IsTestFailedEv(e) ==
  e.type = "phase" /\ e.phase = "execute" /\ e.message # "Executing tests"

\* C8: an exception of runTest is caught and counted as a failed test while the
\* run stays running; no test is started twice; a run that stops without a
\* thrown emit has started every test exactly once; and a completed run has
\* testsPassed + testsFailed = testsGenerated = the number of tests.
C8_RunTestExceptionIsContained ==
  /\ \A k \in 1..Len(started) : started[k] <= 1
  /\ (pc = "push" /\ IsTestFailedEv(pend.e)) =>
        /\ status = "running"
        /\ pend.next = "loopNext"
        /\ passed + failed = i + 1
  /\ (pc = "loop" /\ status = "running") => passed + failed = i
  /\ (Stopped /\ started # <<>> /\ ~EmitThrew) =>
        \A k \in 1..Len(started) : started[k] = 1
  /\ status = "completed" =>
        /\ \A k \in 1..Len(started) : started[k] = 1
        /\ results[1].testsPassed + results[1].testsFailed = results[1].testsGenerated
        /\ results[1].testsGenerated = Len(tests)
        /\ Len(tests) = Len(recTests)

\* a completed run in which runTest threw for one test and a later test ran
C8_Witness ==
  /\ status = "completed"
  /\ Stopped
  /\ \E k \in 1..Len(events) :
       /\ IsTestFailedEv(events[k])
       /\ \E m \in (k + 1)..Len(events) : events[m].type = "test-step"

ProgressBefore(p) == {k \in 1..(p - 1) : events[k].type = "test-progress"}

\* C9: at most one test is executing at any moment; the n-th test-progress
\* event of the log has current = n and total = the number of tests, and every
\* test-step event comes after the test-progress event of its own test and
\* before the next one.
C9_TestsRunOneAfterAnother ==
  /\ Cardinality(executing) <= 1
  /\ \A p \in 1..Len(events) :
       LET n == Cardinality(ProgressBefore(p))
       IN /\ events[p].type = "test-progress" =>
               /\ events[p].current = n + 1
               /\ events[p].total = Len(tests)
               /\ events[p].testName = tests[n + 1].name
          /\ events[p].type = "test-step" =>
               /\ n >= 1
               /\ events[p].testId = tests[n].id

\* a run whose second test has steps in the log
C9_Witness ==
  /\ status = "completed"
  /\ \E p \in 1..Len(events) :
       /\ events[p].type = "test-step"
       /\ Cardinality(ProgressBefore(p)) = 2
       /\ tests[1].id # tests[2].id

\* C10: runTest returns one StepResult per attempted step, with stepIndex 0, 1,
\* ... in order; for a test not flagged negative only the last may be failed
\* (the first failing step, after which none is attempted); for a negative test
\* there is exactly one per step.
C10_StepResultsOfRunTest ==
  lastRun # <<>> =>
    LET t == tests[lastRun[1].test]
        srs == lastRun[1].result.stepResults
    IN /\ \A k \in 1..Len(srs) : srs[k].stepIndex = k - 1
       /\ Len(srs) <= Len(t.steps)
       /\ ~t.negative => \A k \in 1..(Len(srs) - 1) : srs[k].status = "passed"
       /\ ~t.negative => (Len(srs) = Len(t.steps) \/ srs[Len(srs)].status = "failed")
       /\ t.negative => Len(srs) = Len(t.steps)

\* The actions performStep knows (runner lines 89-165).
KnownActions ==
  {"upload", "fill", "click", "select", "assert-text", "assert-url", "assert-visible",
   "assert-hidden", "assert-checked"}

\* The step results recorded so far for step k of the test that is running.
ResultsAt(k) == SelectSeq(stepResults, LAMBDA r : r.stepIndex = k)

\* Step k of the running test is an action on an element and resolves to none.
TargetMissing(k) ==
  /\ CurTest.steps[k + 1].action \in {"fill", "click", "select", "upload"}
  /\ TargetOf(CurTest.steps[k + 1], PageModelOf(CurTest)[1]) = <<>>

\* runTest is between its first step and its return (runner lines 46-65).
InRunTest ==
  \/ pc \in {"step", "stepCatch", "afterStepEnd", "testEnd"}
  \/ pc = "push" /\ pend.ctx \in {"stepTry", "stepCatch"}

C13_AssertUrlForms ==
  (fnIn.fn = "assert-url" /\ fnOut # <<>>) =>
    LET u == fnIn.url
        e == Trim(fnIn.expected)
        rest == IF e # <<>> THEN Tail(e) ELSE <<>>
        named == IF e # <<>> /\ Head(e) \in {"contains:", "not:"} THEN rest ELSE e
        shouldPass == \/ e # <<>> /\ Head(e) = "contains:" /\ Includes(u, rest)
                      \/ e # <<>> /\ Head(e) = "not:" /\ u # rest
                      \/ e # <<>> /\ Head(e) \notin {"contains:", "not:"} /\ u = e
    IN /\ e # <<>> =>
            /\ fnOut[1].ok <=> shouldPass
            /\ ~fnOut[1].ok => Includes(fnOut[1].error, named)
       /\ e = <<"not:", StartUrl>> => (fnOut[1].ok <=> u # <<StartUrl>>)

\* 'not:https://x/a' with blanks around it has passed on a URL that contains
\* 'https://x/a' and is longer.
C13_Witness ==
  /\ fnIn.fn = "assert-url"
  /\ fnIn.expected = <<Blank, "not:", StartUrl>>
  /\ fnIn.url = <<StartUrl, "/b">>
  /\ fnOut = <<Passes>>

\* The run was registered and is no longer: it has been deleted.
Deleted == ~inStore /\ pc # "idle"

\* C14: a run deleted while its task is in flight stays out of the registry from
\* then on; the task is not stopped by the deletion (while it has not returned it
\* always has a next step), and when it has returned the record it holds has a
\* terminal status.
C14_DeletedRunStaysDeletedTaskRunsOn ==
  /\ [](Deleted /\ pc # "done" => ENABLED (TaskNext(Sites) \/ AiNext))
  /\ [](Deleted /\ pc = "done" => Terminal(status))
  /\ [][Deleted => ~inStore']_vars

\* The run was deleted while its task was in flight, and the task is now logging
\* its completed event.
C14_Witness ==
  /\ Deleted
  /\ pc = "push"
  /\ pend.e.type = "completed"
  /\ status = "completed"
  /\ perTestResults # <<>>

\* C15: with several runs in flight, every event in a run's log carries that
\* run's id, tests and results in a record are its own run's, and a step changes
\* the record of a run (status, events, tests, results) only if it is a step of
\* that run's own task or the startRun call that creates the record: no step of
\* another run's task, no delete and no reader changes it.
C15_SingleWriterPerRecord ==
  /\ [](\A r \in RunIds :
         /\ \A k \in 1..Len(recs[r].events) : recs[r].events[k].runId = r
         /\ \A k \in 1..Len(recs[r].tests) : recs[r].tests[k].run = r
         /\ \A k \in 1..Len(recs[r].results) : recs[r].results[k].run = r)
  /\ [][\A r \in RunIds : recs'[r] # recs[r] => (StartRunOf(r) \/ TaskOf(r))]_vars

\* Both runs are in flight, each with events logged, one of them deleted, and a
\* reader has been answered about the other.
C15_Witness ==
  /\ tpc["r1"] = "execute" /\ tpc["r2"] = "finish"
  /\ Len(recs["r1"].events) = 2 /\ Len(recs["r2"].events) = 3
  /\ store = {"r1"}
  /\ seen # <<>> /\ seen[1].runId = "r1" /\ seen[1].found

\* The element of the page built from the given kind, as <<element>>.
ElemOfKind(page, kind) ==
  SelectSeq(page.elements, LAMBDA e : [e EXCEPT !.id = ""] = kind)

\* The page is a form of a text input named username, a password input named
\* password and a submit button, in some order.
IsLoginForm(page) ==
  /\ Len(page.elements) = 3
  /\ \A kind \in {UsernameInput, PasswordInput, SubmitButton} : Len(ElemOfKind(page, kind)) = 1

\* The steps of test t that fill element e with value v.
FillsWith(t, e, v) ==
  \E k \in 1..Len(t.steps) :
    /\ t.steps[k].action = "fill"
    /\ t.steps[k].targetElementId = e.id
    /\ t.steps[k].inputData = v

GeneratedFor(page) == fnIn.fn = "generateTests" /\ fnIn.page = page /\ fnOut # <<>>

\* The generated test with exactly these tags, as a sequence.
TaggedTests(tags) == SelectSeq(fnOut[1], LAMBDA t : t.tags = tags)

\* One of the two fields is filled with the empty string, the other is not.
OneFieldBlank(t, page) ==
  LET u == ElemOfKind(page, UsernameInput)[1]
      p == ElemOfKind(page, PasswordInput)[1]
  IN FillsWith(t, u, "") # FillsWith(t, p, "")

\* C16: for a page with a text input named username, a password input named
\* password and a submit button, generateTests yields a test tagged heuristic and
\* form that fills the password field with 'P@ssw0rd!' and the username field,
\* whose inferred type is text, with the default 'value', and a test tagged
\* heuristic, form and negative that fills exactly one of the two with ''.
C16_LoginFormTests ==
  (GeneratedFor(fnIn.page) /\ IsLoginForm(fnIn.page)) =>
    LET u == ElemOfKind(fnIn.page, UsernameInput)[1]
        p == ElemOfKind(fnIn.page, PasswordInput)[1]
    IN /\ \E k \in 1..Len(TaggedTests({"heuristic", "form"})) :
            /\ FillsWith(TaggedTests({"heuristic", "form"})[k], u, "value")
            /\ FillsWith(TaggedTests({"heuristic", "form"})[k], p, "P@ssw0rd!")
       /\ \E k \in 1..Len(TaggedTests({"heuristic", "form", "negative"})) :
            OneFieldBlank(TaggedTests({"heuristic", "form", "negative"})[k], fnIn.page)

\* The tests of the form username, password, submit have been generated, the
\* negative one among them.
C16_Witness ==
  /\ GeneratedFor(fnIn.page)
  /\ IsLoginForm(fnIn.page)
  /\ fnIn.page.elements[3].tag = "button"
  /\ TaggedTests({"heuristic", "form", "negative"}) # <<>>

\* C16 as the specification states it: the happy-path test fills the username
\* field with 'user@example.com'.
C16_UsernameGetsEmail ==
  (GeneratedFor(fnIn.page) /\ IsLoginForm(fnIn.page)) =>
    \E k \in 1..Len(TaggedTests({"heuristic", "form"})) :
      /\ FillsWith(TaggedTests({"heuristic", "form"})[k],
                   ElemOfKind(fnIn.page, UsernameInput)[1], "user@example.com")
      /\ FillsWith(TaggedTests({"heuristic", "form"})[k],
                   ElemOfKind(fnIn.page, PasswordInput)[1], "P@ssw0rd!")

\* C17: every test generateTests returns for a page has that page's id as its
\* pageModelId, and every step of it that carries a targetElementId names an
\* element of that page.
C17_TargetsAreElementsOfThePage ==
  GeneratedFor(fnIn.page) =>
    \A k \in 1..Len(fnOut[1]) :
      /\ fnOut[1][k].pageModelId = fnIn.page.id
      /\ \A n \in 1..Len(fnOut[1][k].steps) :
           fnOut[1][k].steps[n].targetElementId # Undef =>
             \E m \in 1..Len(fnIn.page.elements) :
               fnIn.page.elements[m].id = fnOut[1][k].steps[n].targetElementId

\* Tests of three kinds have been generated for the page 'p2'.
C17_Witness ==
  /\ GeneratedFor(fnIn.page)
  /\ fnIn.page.id = "p2"
  /\ TaggedTests({"heuristic", "nav"}) # <<>>
  /\ TaggedTests({"heuristic", "form"}) # <<>>
  /\ TaggedTests({"heuristic", "checkbox"}) # <<>>

\* A test tagged both heuristic and nav.
TaggedNav(t) == {"heuristic", "nav"} \subseteq t.tags

\* The positions of the list that the claim keeps: the tests not tagged heuristic
\* and nav, and of the tagged ones the first with each first-step target.
KeptPositions(ts) ==
  {k \in 1..Len(ts) :
     TaggedNav(ts[k]) =>
       \A n \in 1..(k - 1) :
         ~(TaggedNav(ts[n]) /\ ts[n].steps[1].targetElementId = ts[k].steps[1].targetElementId)}

\* The n-th position of a set of positions.
NthOf(K, n) == CHOOSE k \in K : Cardinality({m \in K : m < k}) = n - 1

\* C18: after deduplication no two tests tagged heuristic and nav have the same
\* first-step targetElementId, and the list is the list before with exactly the
\* later tests of each such group taken out: the first of each group and every
\* other test are kept, in their order.
C18_DedupKeepsFirstNavPerTarget ==
  (fnIn.fn = "dedup" /\ fnOut # <<>>) =>
    LET out == fnOut[1]
        K == KeptPositions(fnIn.tests)
    IN /\ \A a, b \in 1..Len(out) :
            (a # b /\ TaggedNav(out[a]) /\ TaggedNav(out[b])) =>
              out[a].steps[1].targetElementId # out[b].steps[1].targetElementId
       /\ Len(out) = Cardinality(K)
       /\ \A n \in 1..Len(out) : out[n] = fnIn.tests[NthOf(K, n)]

\* Two navigation tests of different pages aimed at the same element, with other
\* tests between and after them: the second of the two is gone.
C18_Witness ==
  /\ fnIn.fn = "dedup"
  /\ Len(fnIn.tests) = 4
  /\ fnIn.tests[1] = NavTestOf("p1", "e1")
  /\ fnIn.tests[3] = NavTestOf("p2", "e1")
  /\ fnIn.tests[4] = NavTestOf("p1", "e2")
  /\ ~TaggedNav(fnIn.tests[2])
  /\ fnOut = <<<<fnIn.tests[1], fnIn.tests[2], fnIn.tests[4]>>>>

\* The URL of a PageModel after normalization: absolute, fragment stripped.
Normalized(url) == normalizeUrl(url, url)[1]

\* C19: in one crawl no URL is fetched twice, and no two PageModels have URLs
\* that are equal after normalization, the start URL included.
C19_NoPageTwice ==
  bfs.pc # "idle" =>
    /\ \A a, b \in 1..Len(bfs.fetched) : a # b => bfs.fetched[a] # bfs.fetched[b]
    /\ \A a, b \in 1..Len(bfs.pages) :
         a # b => Normalized(bfs.pages[a].url) # Normalized(bfs.pages[b].url)

\* Page a of the result has a link that normalizes to the URL of page b.
LinksTo(a, b) ==
  \E k \in 1..Len(HrefsOf(bfs.pages[a].url)) :
    normalizeUrl(HrefsOf(bfs.pages[a].url)[k], bfs.pages[a].url) = <<bfs.pages[b].url>>

\* The URLs that have been put on the queue.
Queued == bfs.visited \cup {bfs.queue[k].url : k \in 1..Len(bfs.queue)}

\* C20: the result never has more than maxPages PageModels; the first is the
\* start URL, every other one is linked from a PageModel one link nearer to the
\* start and from none nearer than that, none is further than depth links away,
\* and they are listed by non-decreasing distance; with sameOrigin every URL
\* queued has the origin of the start URL; a URL whose fetch fails leaves a
\* warning and no PageModel, and the crawl goes on until the queue is empty or
\* maxPages PageModels are there.
C20_BoundedBreadthFirstCrawl ==
  bfs.pc # "idle" =>
    /\ Len(bfs.pages) <= crawlIn.maxPages
    /\ \A b \in 1..Len(bfs.pages) :
         /\ bfs.pages[b].d <= crawlIn.depth
         /\ bfs.pages[b].d = 0 <=> b = 1
         /\ b = 1 => bfs.pages[b].url = crawlIn.startUrl
         /\ b > 1 => \E a \in 1..(b - 1) : bfs.pages[a].d = bfs.pages[b].d - 1 /\ LinksTo(a, b)
         /\ \A a \in 1..Len(bfs.pages) : LinksTo(a, b) /\ b > 1 => bfs.pages[a].d + 1 >= bfs.pages[b].d
         /\ \A a \in 1..(b - 1) : bfs.pages[a].d <= bfs.pages[b].d
         /\ Resource(bfs.pages[b].url) \notin crawlIn.down
    /\ crawlIn.sameOrigin => \A u \in Queued : u.origin = crawlIn.startUrl.origin
    /\ Len(bfs.warnings) = Cardinality({u \in bfs.visited : Resource(u) \in crawlIn.down})
    /\ Len(bfs.pages) + Len(bfs.warnings) = Cardinality(bfs.visited)
    /\ bfs.pc = "done" => bfs.queue = <<>> \/ Len(bfs.pages) = crawlIn.maxPages

\* A crawl from a start URL in normal form has returned maxPages PageModels, the
\* last one two links away from the start, after a fetch that failed.
C20_Witness ==
  /\ bfs.pc = "done"
  /\ crawlIn.startUrl = Url("x", "/", "")
  /\ Len(bfs.pages) = crawlIn.maxPages
  /\ Len(bfs.pages) = 3
  /\ bfs.pages[3].d = 2
  /\ Len(bfs.warnings) = 1

AnyFailed(srs) == \E k \in 1..Len(srs) : srs[k].status = "failed"

\* C11: the status of the RunResult runTest returns is passed exactly when no
\* StepResult is failed; with a failed StepResult it is partial for a test
\* flagged negative and failed for one that is not.
C11_RunResultStatus ==
  /\ lastRun # <<>> =>
       LET t == tests[lastRun[1].test]
           res == lastRun[1].result
       IN /\ res.status = "passed" <=> ~AnyFailed(res.stepResults)
          /\ AnyFailed(res.stepResults) =>
               res.status = (IF t.negative THEN "partial" ELSE "failed")
  /\ \A k \in 1..Len(perTestResults) :
       perTestResults[k].status = "passed" <=> ~AnyFailed(perTestResults[k].stepResults)

\* a negative test returned partial after one failed and one passed step
C11_Witness ==
  /\ lastRun # <<>>
  /\ tests[lastRun[1].test].negative
  /\ lastRun[1].result.status = "partial"
  /\ \E k \in 1..Len(lastRun[1].result.stepResults) :
       lastRun[1].result.stepResults[k].status = "passed"

\* The candidates the claim lists for an element, in its order.
ClaimedCandidates(e) ==
  LET all == <<<<"#", e.attributes.idAttr>>, <<"name", e.attributes.nameAttr>>,
               <<"placeholder", e.attributes.placeholder>>,
               <<"aria-label", e.attributes.ariaLabel>>,
               <<"text", IF Len(e.text) < 60 THEN e.text ELSE "">>>>
  IN SelectSeq(all, LAMBDA c : c[2] # "")

\* C21: in the elements either strategy builds from a document the ids are
\* pairwise distinct, and the locator candidates of an element are those of its
\* id attribute, name, placeholder, aria-label and text of fewer than 60
\* characters, in this order, for those it has; the list is empty only when it
\* has none.
C21_DistinctIdsOrderedCandidates ==
  (fnIn.fn = "collect" /\ fnOut # <<>>) =>
    LET els == fnOut[1]
    IN /\ \A a, b \in 1..Len(els) : a # b => els[a].id # els[b].id
       /\ \A k \in 1..Len(els) :
            /\ els[k].locatorCandidates = ClaimedCandidates(els[k])
            /\ els[k].locatorCandidates = <<>> =>
                 /\ els[k].attributes.idAttr = "" /\ els[k].attributes.nameAttr = ""
                 /\ els[k].attributes.placeholder = "" /\ els[k].attributes.ariaLabel = ""
                 /\ els[k].text = "" \/ Len(els[k].text) >= 60

\* Two elements with all four attributes and a text of 59 characters have been
\* collected: five candidates each.
C21_Witness ==
  /\ fnIn.fn = "collect"
  /\ fnOut # <<>>
  /\ Len(fnOut[1]) = 2
  /\ Len(fnOut[1][2].locatorCandidates) = 5
  /\ fnOut[1][2].locatorCandidates[5] = <<"text", Text59>>

\* C22: whenever the provider side fails (the request is rejected by the network,
\* the response status is not OK, or the body holds no parsable list of tests),
\* generateTests of every provider returns the empty list and does not throw.
C22_ProviderFailureYieldsEmptyList ==
  (fnIn.fn = "aiGenerateTests" /\ fnOut # <<>> /\ fnIn.outcome \in ProviderFailures)
    => (~fnOut[1].threw /\ fnOut[1].tests = <<>>)

\* C23: with AI generation enabled, when selecting the provider or generateTests
\* throws, the orchestrator records aiGeneration.used = false, appends exactly one
\* generate-phase message, keeps the heuristic tests and goes on to the
\* deduplication; the step of the AI provider never sets the status to error.
C23_AiFailureIsSkipped ==
  [][/\ (pc = "ai" /\ pc' # "ai") =>
          /\ config.aiGenerated
          /\ status' = status
          /\ pc' = "push"
          /\ pend'.next = "dedup"
          /\ pend'.e.type = "phase" /\ pend'.e.phase = "generate"
          /\ events' = events
          /\ (pend'.e.message = "AI generation skipped" =>
                /\ aiGeneration' = [used |-> FALSE, set |-> TRUE]
                /\ tests' = tests
                /\ pend'.ctx = "try")
     /\ (pc = "push" /\ pend.e = PhaseEv("generate", "AI generation skipped")) =>
          /\ events' = Append(events, pend.e)
          /\ tests' = tests
          /\ aiGeneration' = aiGeneration
          /\ (status' = "error" => faults' = faults + 1)
          /\ (status' # "error" => pc' = "dedup")]_vars

C23_Witness ==
  /\ status = "completed"
  /\ faults = 0
  /\ aiGeneration = [used |-> FALSE, set |-> TRUE]
  /\ Len(SelectSeq(events, LAMBDA e : e = PhaseEv("generate", "AI generation skipped"))) = 1
  /\ recTests # <<>>

\* A stream that polls a run in a terminal status closes, unless the run is
\* deleted before the poll timer fires.
StreamClosesOnTerminal ==
  [](spc = "poll" /\ Terminal(status) => <>(spc = "closed" \/ ~inStore))

\* A stream waiting for a run that never appears leaves the grace period.
StreamLeavesGracePeriod == (spc = "wait") ~> (spc # "wait")

\* A stream that polls a run which is deleted closes.
StreamClosesOnDelete == (spc = "poll" /\ ~inStore) ~> (spc = "closed")

\* C24: every event stream opened for a run id closes in the end, without the
\* client having to abort: when the run reaches completed or error, when the run
\* is deleted while the stream is open, and when no run ever appears.
C24_EveryStreamCloses == (spc \in {"wait", "poll"}) ~> (spc = "closed")

\* The locators of an element in the order the claim gives: the stored
\* candidates, then the aria-label, the role and the visible text.
LocatorsInClaimedOrder(el) ==
  LET cs == el.locatorCandidates
  IN [k \in 1..Len(cs) |-> IF StartsWithText(cs[k]) THEN GetByTextExact(cs[k][2])
                           ELSE Locator(cs[k])]
       \o (IF el.ariaLabel # "" THEN <<GetByLabel(el.ariaLabel)>> ELSE <<>>)
       \o (IF el.role # "" THEN <<GetByRole(el.role)>> ELSE <<>>)
       \o (IF el.text # "" THEN <<GetByText(el.text)>> ELSE <<>>)

\* C25: locatorFor uses the first stored candidate that resolves in the page,
\* falls back to the aria-label, then the role, then the visible text, and fails
\* with 'No valid locator' only when none of them resolves.
C25_FirstResolvingLocator ==
  (fnIn.fn = "locatorFor" /\ fnOut # <<>>) =>
    LET resolving == SelectSeq(LocatorsInClaimedOrder(fnIn.el), LAMBDA l : l \in fnIn.page)
    IN /\ resolving # <<>> => fnOut[1] = resolving[1]
       /\ fnOut[1] = NoValidLocator => resolving = <<>>

\* C26: for a visibly rendered element the static and the dynamic strategy take
\* the same decision: both skip it exactly when its type is hidden or it carries
\* aria-hidden="true".
C26_SameIncludeDecision ==
  (fnIn.fn = "include" /\ fnOut # <<>> /\ fnIn.el.visible) =>
    /\ fnOut[1].static = fnOut[1].dynamic
    /\ ~fnOut[1].static <=> (fnIn.el.typeAttr = "hidden" \/ fnIn.el.ariaHidden = "true")

\* The event of the crawl phase that follows the crawl is in the log.
CrawlLogged == crawlResult # <<>> /\ ~(pc = "push" /\ pend.next = "genStart")

InLog(message) == \E k \in 1..Len(events) : events[k] = PhaseEv("crawl", message)

Attempted(strategy, got) ==
  \E k \in 1..Len(attempts) : attempts[k] = [strategy |-> strategy, got |-> got]

\* The events of the log that tell of a failed dynamic crawl and of the static
\* one used in its place.
SaysFellBack ==
  \/ \E m \in {"Invalid URL", "Playwright not available", "emit threw"} :
       InLog("Dynamic crawl failed (" \o m \o ") falling back to static")
  \/ InLog("Static crawl fallback succeeded")

\* C27: 'Dynamic crawl succeeded' is in the log only if the pages were produced by
\* the dynamic strategy, and whenever the pages were produced by the static
\* strategy after a failed dynamic attempt, the log holds an event that says so.
C27_LogTellsTheStrategy ==
  /\ InLog("Dynamic crawl succeeded") => Attempted("dynamic", "pages")
  /\ (CrawlLogged /\ Attempted("static", "pages")
        /\ (Attempted("dynamic", "thrown") \/ Attempted("dynamic", "nopage")))
       => SaysFellBack

\* The tests that were executed: record.tests, set before the execute phase.
ExecutedPageIds ==
  {recTests[k].pageModelId : k \in 1..Len(recTests)}
    \cap {Pages[k].id : k \in 1..Len(Pages)}

ExecutedClickTargets ==
  LET steps == UNION {Range(recTests[k].steps) : k \in 1..Len(recTests)}
  IN {s.targetElementId :
        s \in {st \in steps : st.action = "click" /\ st.targetElementId \notin {Undef, ""}}}

\* C28: the coverage of the summary describes the executed tests: pagesTested is
\* the number of distinct discovered pages that own a test of the executed list
\* (the synthetic upload, login and smoke tests included), clickableTouched the
\* number of distinct click targets over all executed tests.
C28_CoverageOfExecutedTests ==
  (status = "completed" /\ results # <<>>) =>
    /\ results[1].coverage.pagesTested = Cardinality(ExecutedPageIds)
    /\ results[1].coverage.clickableTouched = Cardinality(ExecutedClickTargets)

\* The test-step events of the log that belong to the test with this id.
StepEventsOf(testId) ==
  SelectSeq(events, LAMBDA e : e.type = "test-step" /\ e.testId = testId)

\* C29: for every test runTest returned a RunResult for, the log holds exactly one
\* test-step event per StepResult of the test, in the same order, with the same
\* stepIndex and status, and the screenshots of the summary list, in that order,
\* the evidence of exactly those events.
C29_StepEventsMatchStepResults ==
  (status = "completed" /\ results # <<>>) =>
    \A n \in 1..Len(perTestResults) :
      LET r == perTestResults[n]
          evs == StepEventsOf(r.testId)
      IN /\ Len(evs) = Len(r.stepResults)
         /\ \A k \in 1..Len(evs) :
              /\ evs[k].stepIndex = r.stepResults[k].stepIndex
              /\ evs[k].status = r.stepResults[k].status
         /\ SelectSeq(results[1].screenshots, LAMBDA u : u.test = r.testId)
              = [k \in 1..Len(evs) |-> evs[k].screenshot]

\* The generated tests tagged nav.
NavTagged == SelectSeq(fnOut[1], LAMBDA t : "nav" \in t.tags)

\* The test clicks the element and then asserts that the URL is no longer the
\* page's.
ClicksThenUrlChanged(t, e, page) ==
  /\ Len(t.steps) = 2
  /\ t.steps[1].action = "click" /\ t.steps[1].targetElementId = e.id
  /\ t.steps[2].action = "assert-url" /\ t.steps[2].expected = "not:" \o page.url

\* C30: for every page generateTests produces at most 5 tests tagged nav; each
\* one targets an anchor, whatever its text, or a button whose text matches a
\* navigation verb, and consists of a click on that element followed by an
\* assert-url step expecting 'not:' plus the page URL.
C30_UpToFiveNavTests ==
  GeneratedFor(fnIn.page) =>
    /\ Len(NavTagged) <= 5
    /\ \A k \in 1..Len(NavTagged) :
         \E m \in 1..Len(fnIn.page.elements) :
           LET e == fnIn.page.elements[m]
           IN /\ e.tag = "a" \/ (e.tag = "button" /\ NavVerbText(e.text))
              /\ ClicksThenUrlChanged(NavTagged[k], e, fnIn.page)

\* Six links and buttons with a verb, five navigation tests, the first of them
\* for a link that reads Close.
C30_Witness ==
  /\ GeneratedFor(fnIn.page)
  /\ Len(fnIn.page.elements) = 6
  /\ \A m \in 1..6 : fnIn.page.elements[m].text \in {"Close", "Go"}
  /\ fnIn.page.elements[1].text = "Close"
  /\ Len(NavTagged) = 5
  /\ NavTagged[1].steps[1].targetElementId = "e1"

\* C30 as the specification states it: the text of every target, anchor or
\* button, matches a navigation verb.
C30_EveryTargetReadsAVerb ==
  GeneratedFor(fnIn.page) =>
    /\ Len(NavTagged) <= 5
    /\ \A k \in 1..Len(NavTagged) :
         \E m \in 1..Len(fnIn.page.elements) :
           LET e == fnIn.page.elements[m]
           IN /\ e.tag \in {"a", "button"} /\ NavVerbText(e.text)
              /\ ClicksThenUrlChanged(NavTagged[k], e, fnIn.page)

\* The element of the page with this id.
ElemById(page, id) == page.elements[IndexOfId(page.elements, id) + 1]

\* The fields a form test fills or selects, in the order of its steps.
FieldsOf(t, page) ==
  LET fills == SelectSeq(t.steps, LAMBDA s : s.action \in {"fill", "select"})
  IN [k \in 1..Len(fills) |-> ElemById(page, fills[k].targetElementId)]

\* The first submit control of the page, as find returns it.
SubmitOf(page) ==
  SelectSeq(page.elements,
            LAMBDA e : /\ e.tag = "button" \/ e.type = "submit" \/ SubmitText(e.text)
                       /\ \A m \in 1..(IndexOfId(page.elements, e.id)) :
                            LET b == page.elements[m]
                            IN ~(b.tag = "button" \/ b.type = "submit" \/ SubmitText(b.text)))

DistanceTo(page, e, f) ==
  Abs(IndexOfId(page.elements, f.id) - IndexOfId(page.elements, e.id))

SemanticClass(f) == IF UserLike(f) THEN 0 ELSE IF PassLike(f) THEN 1 ELSE 2

\* f is ranked before g: nearer to the submit control, or as near and of a
\* better class, or equal in both and earlier in the document.
RankedBefore(page, submit, f, g) ==
  LET df == DistanceTo(page, submit, f)
      dg == DistanceTo(page, submit, g)
  IN \/ df < dg
     \/ df = dg /\ SemanticClass(f) < SemanticClass(g)
     \/ /\ df = dg /\ SemanticClass(f) = SemanticClass(g)
        /\ IndexOfId(page.elements, f.id) < IndexOfId(page.elements, g.id)

\* The text-like controls of the page, those of the submit control's form when
\* it has one.
CandidateFields(page) ==
  LET submit == SubmitOf(page)
  IN SelectSeq(page.elements,
               LAMBDA e : /\ e.tag \in {"select", "textarea"}
                             \/ (e.tag = "input" /\ e.type \in {"", "text", "email", "password",
                                                                "search", "tel", "url", "number"})
                          /\ (submit # <<>> /\ submit[1].containerFormId # Undef)
                               => e.containerFormId = submit[1].containerFormId)

BlankPositions(t) ==
  LET fills == SelectSeq(t.steps, LAMBDA s : s.action \in {"fill", "select"})
  IN {k \in 1..Len(fills) : fills[k].inputData = ""}

\* The generated tests with the flag negative.
NegativeTests == SelectSeq(fnOut[1], LAMBDA t : t.negative)

\* C32: a form negative-path test has negative = true and the tags heuristic,
\* form and negative; its fill and select steps target the fields of the page's
\* happy-path test in the same order, and exactly one of them has the empty
\* input: the first ranked field with a required attribute, or the first ranked
\* field when none has one.
C32_NegativePathBlanksOneField ==
  GeneratedFor(fnIn.page) =>
    /\ NegativeTests = TaggedTests({"heuristic", "form", "negative"})
    /\ Len(NegativeTests) <= 1
    /\ \A n \in 1..Len(NegativeTests) :
         LET neg == NegativeTests[n]
             fields == FieldsOf(neg, fnIn.page)
             req == {k \in 1..Len(fields) : fields[k].required}
         IN /\ TaggedTests({"heuristic", "form"}) # <<>>
            /\ fields = FieldsOf(TaggedTests({"heuristic", "form"})[1], fnIn.page)
            /\ fields # <<>>
            /\ BlankPositions(neg)
                 = {IF req = {} THEN 1 ELSE CHOOSE k \in req : \A m \in req : k <= m}

\* The required field is ranked second: the first field is filled, the second
\* left blank.
C32_Witness ==
  /\ GeneratedFor(fnIn.page)
  /\ NegativeTests # <<>>
  /\ Len(FieldsOf(NegativeTests[1], fnIn.page)) = 3
  /\ ~FieldsOf(NegativeTests[1], fnIn.page)[1].required
  /\ FieldsOf(NegativeTests[1], fnIn.page)[2].required
  /\ BlankPositions(NegativeTests[1]) = {2}

LoginTestFor(page) == fnIn.fn = "createLoginTest" /\ fnIn.page = page /\ fnOut # <<>>

HasElem(page, P(_)) == \E k \in 1..Len(page.elements) : P(page.elements[k])

\* C33 (createLoginTest): the login test is made only for a page with a
\* username-like input and a password-typed input; its first two steps fill the
\* username and the password into two different elements, and it holds a click
\* step exactly when a submit control is found on the page.
C33_LoginTestFillsTwoFields ==
  LoginTestFor(fnIn.page) =>
    LET page == fnIn.page
        made == fnOut[1]
        userLike(e) == e.tag = "input" /\ (e.type \in {"text", "email"} \/ UserName(e.name))
        passTyped(e) == e.tag = "input" /\ e.type = "password"
        submits(e) == \/ e.tag = "button" /\ LoginSubmitText(e.text)
                      \/ e.tag = "input" /\ e.type = "submit"
    IN /\ made # <<>> <=> (HasElem(page, userLike) /\ HasElem(page, passTyped))
       /\ made # <<>> =>
            /\ made[1].steps[1].action = "fill" /\ made[1].steps[2].action = "fill"
            /\ made[1].steps[1].inputData = "credentials.username"
            /\ made[1].steps[2].inputData = "credentials.password"
            /\ made[1].steps[1].targetElementId # made[1].steps[2].targetElementId
            /\ (\E n \in 1..Len(made[1].steps) : made[1].steps[n].action = "click")
                 <=> HasElem(page, submits)

\* The kind of asset the accept attribute asks for first, "none" when it names
\* none of image, video, pdf.
KindAsked(accept) ==
  CASE accept \in {"image/*", "image/*,.pdf"} -> "image"
    [] accept = "application/pdf" -> "pdf"
    [] accept = ".mp4" -> "video"
    [] OTHER -> "none"

\* C34: an upload test is made for a file input only with an uploaded asset that
\* matches the input's accept attribute: when the attribute names a kind and no
\* uploaded asset is of that kind, no upload test is made for the input.
C34_UploadOnlyWithMatchingAsset ==
  (fnIn.fn = "uploadTests" /\ fnOut # <<>> /\ KindAsked(fnIn.accept) # "none") =>
    LET matching == {fnIn.assets[k].path :
                       k \in {n \in 1..Len(fnIn.assets) :
                                fnIn.assets[n].kind = KindAsked(fnIn.accept)}}
    IN /\ matching = {} => fnOut[1] = <<>>
       /\ \A k \in 1..Len(fnOut[1]) : fnOut[1][k].steps[1].inputData \in matching

\* The tests of the run whose RunResult has this status.
ResultsWithStatus(st) == {n \in 1..Len(perTestResults) : perTestResults[n].status = st}

\* C35: in the summary a test is counted in testsPassed exactly when its
\* RunResult has the status passed; a test with the status partial or failed and
\* a test whose execution threw are counted in testsFailed.
C35_OnlyPassedCountsAsPassed ==
  (status = "completed" /\ results # <<>>) =>
    /\ results[1].testsPassed = Cardinality(ResultsWithStatus("passed"))
    /\ results[1].testsFailed
         = Cardinality(ResultsWithStatus("partial")) + Cardinality(ResultsWithStatus("failed"))
           + (Len(recTests) - Len(perTestResults))
    /\ \A n \in 1..Len(perTestResults) :
         perTestResults[n].status \in {"passed", "partial", "failed"}

\* A completed run with a negative test that ended partial and is counted among
\* the failed ones.
C35_Witness ==
  /\ status = "completed" /\ results # <<>>
  /\ ResultsWithStatus("partial") # {}
  /\ results[1].testsPassed >= 1
  /\ results[1].testsFailed = Cardinality(ResultsWithStatus("partial"))

\* The StepResults recorded so far: those of the tests that returned and those
\* of the test being run.
RecordedStepResults ==
  UNION {Range(perTestResults[n].stepResults) : n \in 1..Len(perTestResults)}
    \cup (IF InRunTest THEN Range(stepResults) ELSE {})

\* C36: the status recorded for a step depends only on the outcome of its
\* action: a failure to capture the evidence screenshot never turns a step whose
\* action succeeded into a failed step. (A step failed by a throwing event
\* callback is the matter of C10 and is let through here.)
C36_ScreenshotFailureIsSwallowed ==
  \A s \in RecordedStepResults :
    s.status = "failed" =>
      \/ s.error \in {"action failed", "No file path provided for upload", "emit threw"}
      \/ \E a \in KnownActions : s.error = "No target element for " \o a

\* C37: every browser runTest launches is closed by the time runTest returns or
\* throws, also when the first navigation fails; a run never has more than one
\* runner browser open at a time.
C37_BrowserClosedWhenRunTestEnds ==
  /\ browsersOpen <= 1
  /\ executing = {} => browsersOpen = 0

\* C38: every fill, select and click step of every test generateTests returns
\* carries a targetElementId, the submit step of the form tests on a page without
\* a submit control included.
C38_EveryActionStepHasATarget ==
  GeneratedFor(fnIn.page) =>
    \A k \in 1..Len(fnOut[1]) : \A n \in 1..Len(fnOut[1][k].steps) :
      fnOut[1][k].steps[n].action \in {"fill", "select", "click"}
        => fnOut[1][k].steps[n].targetElementId \notin {Undef, ""}

\* One turn of the crawl loop takes the first URL off the queue; what it adds
\* to the queue comes from an item nearer than depth, is one level further and
\* is a URL neither visited nor queued before it.
TurnOfTheLoop ==
  bfs.pc = "loop" /\ bfs'.pc = "loop" =>
    LET rest == Tail(bfs.queue)
    IN /\ bfs.queue # <<>>
       /\ Len(bfs'.queue) >= Len(rest)
       /\ SubSeq(bfs'.queue, 1, Len(rest)) = rest
       /\ \A k \in (Len(rest) + 1)..Len(bfs'.queue) :
            /\ Head(bfs.queue).depth < crawlIn.depth
            /\ bfs'.queue[k].depth = Head(bfs.queue).depth + 1
            /\ bfs'.queue[k].url \notin bfs'.visited
            /\ \A n \in 1..(k - 1) : bfs'.queue[n].url # bfs'.queue[k].url
       /\ Len(bfs'.fetched) <= Len(bfs.fetched) + 1

\* C39: the crawl loop terminates on every finite web, for every maxPages and
\* depth, also when fetches fail: each turn takes one URL off the queue and
\* queues only URLs neither visited nor queued, found on a page nearer than
\* depth.
C39_CrawlTerminates ==
  /\ [][TurnOfTheLoop]_vars
  /\ <>(bfs.pc = "done")

\* A crawl has returned with an empty queue, short of maxPages, after a failed
\* fetch, on a web where a page links back to the start URL.
C39_Witness ==
  /\ bfs.pc = "done"
  /\ bfs.queue = <<>>
  /\ Len(bfs.pages) = 2
  /\ Len(bfs.pages) < crawlIn.maxPages
  /\ Len(bfs.warnings) = 1
  /\ crawlIn.depth = MaxDepth
  /\ \E k \in 1..Len(HrefsOf(bfs.pages[2].url)) :
       normalizeUrl(HrefsOf(bfs.pages[2].url)[k], bfs.pages[2].url) = <<crawlIn.startUrl>>

\* C40: in the coverage of every completed run pagesTested is between 0 and
\* pagesFound, formsFilled between 0 and formsFound, routesHit at most
\* pagesTested, and both percentages are between 0 and 100, tests of the AI
\* provider for a page that was not discovered included.
C40_CoverageWithinBounds ==
  (status = "completed" /\ results # <<>>) =>
    LET c == results[1].coverage
    IN /\ 0 <= c.pagesTested /\ c.pagesTested <= c.pagesFound
       /\ 0 <= c.formsFilled /\ c.formsFilled <= c.formsFound
       /\ c.routesHit <= c.pagesTested
       /\ 0 <= c.percentPages /\ c.percentPages <= 100
       /\ 0 <= c.percentForms /\ c.percentForms <= 100

====
